---- MODULE Spec2Model ----
(***************************************************************************)
(* Schema IR (schema), its derivation (schema-derive) and the three        *)
(* projectors: to_anthropic_schema (schema-anthropic),                     *)
(* schema_type_to_openapi (schema-openapi) and schema_type_to_wit          *)
(* (schema-wit).                                                           *)
(*                                                                         *)
(* Text is modelled at the character level: a Rust String is a sequence of *)
(* one-character strings.  Option<T> is a sequence of length 0 (None) or 1 *)
(* (Some).  A HashMap is the sequence of its (key, value) entries in       *)
(* iteration order, with pairwise distinct keys.  A serde_json::Value is a *)
(* tagged record; a serde_json::Map is a function from keys to values.     *)
(***************************************************************************)
EXTENDS Integers, Sequences, FiniteSets, TLC

(***************************************************************************)
(* Characters and strings                                                  *)
(***************************************************************************)

\* Printable ASCII, code points 32..126, in code-point order (the grave
\* accent, which a TLA+ string cannot hold, by a placeholder).
Ascii ==
    <<" ", "!", "\"", "#", "$", "%", "&", "'", "(", ")", "*", "+", ",", "-", ".", "/",
      "0", "1", "2", "3", "4", "5", "6", "7", "8", "9", ":", ";", "<", "=", ">", "?", "@",
      "A", "B", "C", "D", "E", "F", "G", "H", "I", "J", "K", "L", "M", "N", "O", "P", "Q",
      "R", "S", "T", "U", "V", "W", "X", "Y", "Z", "[", "\\", "]", "^", "_", "(grave)",
      "a", "b", "c", "d", "e", "f", "g", "h", "i", "j", "k", "l", "m", "n", "o", "p", "q",
      "r", "s", "t", "u", "v", "w", "x", "y", "z", "{", "|", "}", "~">>

\* Code point of a character (the byte that String's Ord compares).
CharCode ==
    [c \in {Ascii[i] : i \in 1..Len(Ascii)} \cup {"\n"} |->
        IF c = "\n" THEN 10 ELSE 31 + CHOOSE i \in 1..Len(Ascii) : Ascii[i] = c]

\* char::is_uppercase, on ASCII.
is_uppercase(ch) ==
    CharCode[ch] >= 65 /\ CharCode[ch] <= 90

\* char::to_lowercase, on ASCII.
to_lowercase(ch) ==
    IF is_uppercase(ch) THEN Ascii[CharCode[ch] + 32 - 31] ELSE ch

\* char::is_whitespace, on the characters of the model.
is_whitespace(ch) ==
    ch = " " \/ ch = "\n"

None ==
    <<>>

Some(x) ==
    <<x>>

is_some(o) ==
    Len(o) = 1

unwrap(o) ==
    o[1]

\* a < b in String's lexicographic byte order.
RECURSIVE StrLessFrom(_, _, _)
StrLessFrom(a, b, i) ==
    IF i > Len(b) THEN FALSE
    ELSE IF i > Len(a) THEN TRUE
    ELSE IF CharCode[a[i]] < CharCode[b[i]] THEN TRUE
    ELSE IF CharCode[a[i]] > CharCode[b[i]] THEN FALSE
    ELSE StrLessFrom(a, b, i + 1)

StrLess(a, b) ==
    StrLessFrom(a, b, 1)

\* str::contains: pat occurs in s as a contiguous substring.
contains(s, pat) ==
    \E i \in 0..(Len(s) - Len(pat)) :
        \A j \in 1..Len(pat) : s[i + j] = pat[j]

\* str::starts_with.
starts_with(s, pat) ==
    /\ Len(s) >= Len(pat)
    /\ \A j \in 1..Len(pat) : s[j] = pat[j]

\* Concatenation of a sequence of strings (repeated push_str).
RECURSIVE Concat(_)
Concat(parts) ==
    IF parts = <<>> THEN <<>> ELSE Head(parts) \o Concat(Tail(parts))

\* [String]::join(sep).
RECURSIVE join(_, _)
join(parts, sep) ==
    IF parts = <<>> THEN <<>>
    ELSE IF Len(parts) = 1 THEN parts[1]
    ELSE parts[1] \o sep \o join(Tail(parts), sep)

\* str::to_lowercase, on ASCII.
str_to_lowercase(s) ==
    [i \in 1..Len(s) |-> to_lowercase(s[i])]

\* str::lines: split at "\n"; a final empty piece is not a line.
lines(s) ==
    LET breaks == {i \in 1..Len(s) : s[i] = "\n"}
        \* the position of the k-th line break
        break(k) == CHOOSE i \in breaks : Cardinality({j \in breaks : j <= i}) = k
        n == Cardinality(breaks)
        first(k) == IF k = 1 THEN 1 ELSE break(k - 1) + 1
        last(k) == IF k <= n THEN break(k) - 1 ELSE Len(s)
        count == IF s # <<>> /\ s[Len(s)] # "\n" THEN n + 1 ELSE n
    IN [k \in 1..count |-> SubSeq(s, first(k), last(k))]

\* str::trim: strip leading and trailing whitespace.
RECURSIVE trim_start(_)
trim_start(s) ==
    IF s # <<>> /\ is_whitespace(s[1]) THEN trim_start(Tail(s)) ELSE s

RECURSIVE trim_end(_)
trim_end(s) ==
    IF s # <<>> /\ is_whitespace(s[Len(s)])
    THEN trim_end(SubSeq(s, 1, Len(s) - 1)) ELSE s

trim(s) ==
    trim_end(trim_start(s))

\* The keys of a serde_json::Map in ascending order (its BTreeMap order).
RECURSIVE SortedKeys(_)
SortedKeys(S) ==
    IF S = {} THEN <<>>
    ELSE LET least == CHOOSE k \in S : \A other \in S \ {k} : StrLess(k, other)
         IN <<least>> \o SortedKeys(S \ {least})

(***************************************************************************)
(* String literals of the source                                           *)
(***************************************************************************)

k_description ==
    <<"d", "e", "s", "c", "r", "i", "p", "t", "i", "o", "n">>

k_type ==
    <<"t", "y", "p", "e">>

k_properties ==
    <<"p", "r", "o", "p", "e", "r", "t", "i", "e", "s">>

k_required ==
    <<"r", "e", "q", "u", "i", "r", "e", "d">>

k_items ==
    <<"i", "t", "e", "m", "s">>

k_uniqueItems ==
    <<"u", "n", "i", "q", "u", "e", "I", "t", "e", "m", "s">>

k_additionalProperties ==
    <<"a", "d", "d", "i", "t", "i", "o", "n", "a", "l", "P", "r", "o", "p", "e", "r", "t", "i", "e", "s">>

k_enum ==
    <<"e", "n", "u", "m">>

k_prefixItems ==
    <<"p", "r", "e", "f", "i", "x", "I", "t", "e", "m", "s">>

k_minItems ==
    <<"m", "i", "n", "I", "t", "e", "m", "s">>

k_maxItems ==
    <<"m", "a", "x", "I", "t", "e", "m", "s">>

k_ref ==
    <<"$", "r", "e", "f">>

k_ok ==
    <<"o", "k">>

k_error ==
    <<"e", "r", "r", "o", "r">>

k_oneOf ==
    <<"o", "n", "e", "O", "f">>

k_discriminator ==
    <<"d", "i", "s", "c", "r", "i", "m", "i", "n", "a", "t", "o", "r">>

k_propertyName ==
    <<"p", "r", "o", "p", "e", "r", "t", "y", "N", "a", "m", "e">>

k_const ==
    <<"c", "o", "n", "s", "t">>

k_data ==
    <<"d", "a", "t", "a">>

v_string ==
    <<"s", "t", "r", "i", "n", "g">>

v_integer ==
    <<"i", "n", "t", "e", "g", "e", "r">>

v_number ==
    <<"n", "u", "m", "b", "e", "r">>

v_boolean ==
    <<"b", "o", "o", "l", "e", "a", "n">>

v_null ==
    <<"n", "u", "l", "l">>

v_object ==
    <<"o", "b", "j", "e", "c", "t">>

v_array ==
    <<"a", "r", "r", "a", "y">>

v_definitions ==
    <<"#", "/", "d", "e", "f", "i", "n", "i", "t", "i", "o", "n", "s", "/">>

v_components_schemas ==
    <<"#", "/", "c", "o", "m", "p", "o", "n", "e", "n", "t", "s", "/", "s", "c", "h", "e", "m", "a", "s", "/">>

v_result_note ==
    <<"R", "e", "s", "u", "l", "t", " ", "t", "y", "p", "e", " ", "-", " ", "e", "x", "a", "c", "t", "l", "y", " ", "o", "n", "e", " ", "o", "f", " ", "o", "k", " ", "o", "r", " ", "e", "r", "r", "o", "r", " ", "w", "i", "l", "l", " ", "b", "e", " ", "p", "r", "e", "s", "e", "n", "t">>

w_string ==
    <<"s", "t", "r", "i", "n", "g">>

w_bool ==
    <<"b", "o", "o", "l">>

w_unit ==
    <<"u", "n", "i", "t">>

w_s32 ==
    <<"s", "3", "2">>

w_s64 ==
    <<"s", "6", "4">>

w_u8 ==
    <<"u", "8">>

w_u32 ==
    <<"u", "3", "2">>

w_u64 ==
    <<"u", "6", "4">>

w_f32 ==
    <<"f", "3", "2">>

w_f64 ==
    <<"f", "6", "4">>

w_list_open ==
    <<"l", "i", "s", "t", "<">>

w_close_angle ==
    <<">">>

w_result_open ==
    <<"r", "e", "s", "u", "l", "t", "<">>

w_comma_space ==
    <<",", " ">>

w_tuple_open ==
    <<"t", "u", "p", "l", "e", "<">>

w_tagged_union_placeholder ==
    <<"/", "*", " ", "T", "a", "g", "g", "e", "d", "U", "n", "i", "o", "n", " ", "n", "o", "t", " ", "s", "u", "p", "p", "o", "r", "t", "e", "d", " ", "-", " ", "u", "s", "e", " ", "V", "a", "r", "i", "a", "n", "t", " ", "i", "n", "s", "t", "e", "a", "d", " ", "*", "/">>

w_doc ==
    <<"/", "/", "/", " ">>

w_newline ==
    <<"\n">>

w_indent ==
    <<" ", " ", " ", " ">>

w_record ==
    <<"r", "e", "c", "o", "r", "d", " ">>

w_open_brace ==
    <<" ", "{", "\n">>

w_anonymous_record ==
    <<"a", "n", "o", "n", "y", "m", "o", "u", "s", "-", "r", "e", "c", "o", "r", "d">>

w_option_open ==
    <<"o", "p", "t", "i", "o", "n", "<">>

w_colon ==
    <<":", " ">>

w_comma_newline ==
    <<",", "\n">>

w_close_brace ==
    <<"}">>

w_enum ==
    <<"e", "n", "u", "m", " ">>

w_anonymous_enum ==
    <<"a", "n", "o", "n", "y", "m", "o", "u", "s", "-", "e", "n", "u", "m">>

w_variant ==
    <<"v", "a", "r", "i", "a", "n", "t", " ">>

w_anonymous_variant ==
    <<"a", "n", "o", "n", "y", "m", "o", "u", "s", "-", "v", "a", "r", "i", "a", "n", "t">>

w_open_paren ==
    <<"(">>

w_close_paren_comma ==
    <<")", ",", "\n">>

k_name ==
    <<"n", "a", "m", "e">>

k_input_schema ==
    <<"i", "n", "p", "u", "t", "_", "s", "c", "h", "e", "m", "a">>

s_path ==
    <<"F", "i", "l", "e", " ", "s", "y", "s", "t", "e", "m", " ", "p", "a", "t", "h">>

s_json_value ==
    <<"D", "y", "n", "a", "m", "i", "c", " ", "J", "S", "O", "N", " ", "v", "a", "l", "u", "e">>

s_hash_map ==
    <<"U", "n", "o", "r", "d", "e", "r", "e", "d", " ", "m", "a", "p", "/", "d", "i", "c", "t", "i", "o", "n", "a", "r", "y", " ", "o", "f", " ", "k", "e", "y", "-", "v", "a", "l", "u", "e", " ", "p", "a", "i", "r", "s">>

s_hash_set ==
    <<"U", "n", "o", "r", "d", "e", "r", "e", "d", " ", "s", "e", "t", " ", "o", "f", " ", "u", "n", "i", "q", "u", "e", " ", "v", "a", "l", "u", "e", "s">>

s_btree_map ==
    <<"O", "r", "d", "e", "r", "e", "d", " ", "m", "a", "p", "/", "d", "i", "c", "t", "i", "o", "n", "a", "r", "y", " ", "o", "f", " ", "k", "e", "y", "-", "v", "a", "l", "u", "e", " ", "p", "a", "i", "r", "s">>

s_btree_set ==
    <<"O", "r", "d", "e", "r", "e", "d", " ", "s", "e", "t", " ", "o", "f", " ", "u", "n", "i", "q", "u", "e", " ", "v", "a", "l", "u", "e", "s">>

s_linked_list ==
    <<"D", "o", "u", "b", "l", "y", "-", "l", "i", "n", "k", "e", "d", " ", "l", "i", "s", "t">>

derive_tag_field ==
    <<"t", "y", "p", "e">>

(***************************************************************************)
(* serde_json::Value                                                       *)
(***************************************************************************)

JString(s) ==
    [t |-> "String", s |-> s]

JNumber(n) ==
    [t |-> "Number", n |-> n]

JBool(b) ==
    [t |-> "Bool", b |-> b]

JArray(a) ==
    [t |-> "Array", a |-> a]

JObject(m) ==
    [t |-> "Object", m |-> m]

\* serde_json::Map::new()
MapNew ==
    <<>>

\* Map::insert: a later insert under the same key replaces the value.
insert(m, k, v) ==
    [x \in (DOMAIN m) \cup {k} |-> IF x = k THEN v ELSE m[x]]

\* json!(vec_of_strings)
JStrings(names) ==
    JArray([i \in 1..Len(names) |-> JString(names[i])])

is_object(j) ==
    j.t = "Object"

contains_key(j, k) ==
    is_object(j) /\ k \in DOMAIN j.m

(***************************************************************************)
(* Schema IR: SchemaType { kind, description }, TypeKind, VariantCase      *)
(***************************************************************************)

IntegerKind ==
    {"I32", "I64", "U8", "U32", "U64", "Usize"}

NumberKind ==
    {"F32", "F64"}

TypeKind_String(description) ==
    [kind |-> "String", description |-> description]

TypeKind_Integer(k, description) ==
    [kind |-> "Integer", int |-> k, description |-> description]

TypeKind_Number(k, description) ==
    [kind |-> "Number", num |-> k, description |-> description]

TypeKind_Boolean(description) ==
    [kind |-> "Boolean", description |-> description]

TypeKind_Null(description) ==
    [kind |-> "Null", description |-> description]

TypeKind_Object(properties, required, description) ==
    [kind |-> "Object", properties |-> properties, required |-> required,
     description |-> description]

TypeKind_Array(items, description) ==
    [kind |-> "Array", items |-> items, description |-> description]

TypeKind_Set(items, ordered, description) ==
    [kind |-> "Set", items |-> items, ordered |-> ordered,
     description |-> description]

TypeKind_Map(key, value, ordered, description) ==
    [kind |-> "Map", key |-> key, value |-> value, ordered |-> ordered,
     description |-> description]

TypeKind_Enum(variants, description) ==
    [kind |-> "Enum", variants |-> variants, description |-> description]

TypeKind_TaggedUnion(tag_field, tag_variants, data_fields, description) ==
    [kind |-> "TaggedUnion", tag_field |-> tag_field,
     tag_variants |-> tag_variants, data_fields |-> data_fields,
     description |-> description]

TypeKind_Variant(cases, description) ==
    [kind |-> "Variant", cases |-> cases, description |-> description]

TypeKind_Result(ok, err, description) ==
    [kind |-> "Result", ok |-> ok, err |-> err, description |-> description]

TypeKind_Tuple(fields, description) ==
    [kind |-> "Tuple", fields |-> fields, description |-> description]

TypeKind_Ref(name, description) ==
    [kind |-> "Ref", name |-> name, description |-> description]

VariantCase(name, data, description) ==
    [name |-> name, data |-> data, description |-> description]

\* One (key, value) entry of a HashMap<String, SchemaType>.
Entry(key, value) ==
    [key |-> key, value |-> value]

\* HashMap::keys, as a set.
Keys(entries) ==
    {entries[i].key : i \in 1..Len(entries)}

\* HashMap::contains_key / Vec::contains on names.
SeqContains(seq, x) ==
    \E i \in 1..Len(seq) : seq[i] = x

\* HashMap::get on a key that is present.
Get(entries, k) ==
    entries[CHOOSE i \in 1..Len(entries) : entries[i].key = k].value

(***************************************************************************)
(* Discriminator Projector: schema-anthropic                               *)
(***************************************************************************)

\* The Variant rule's all_fields map: entry(name).or_insert_with(schema)
\* over the Object payloads of the cases, case by case.
RECURSIVE or_insert_all(_, _)
or_insert_all(all_fields, props) ==
    IF props = <<>> THEN all_fields
    ELSE or_insert_all(
            IF Head(props).key \in Keys(all_fields) THEN all_fields
            ELSE Append(all_fields, Head(props)),
            Tail(props))

RECURSIVE collect_all_fields(_, _)
collect_all_fields(all_fields, cases) ==
    IF cases = <<>> THEN all_fields
    ELSE LET case == Head(cases)
             next == IF is_some(case.data) /\ unwrap(case.data).kind = "Object"
                     THEN or_insert_all(all_fields, unwrap(case.data).properties)
                     ELSE all_fields
         IN collect_all_fields(next, Tail(cases))

\* json!({"type": "string", "enum": tag_variants})
discriminator_field(tag_variants) ==
    JObject(insert(insert(MapNew, k_type, JString(v_string)),
                   k_enum, JStrings(tag_variants)))

RECURSIVE to_anthropic_schema(_)

\* The loop left after the entry the map happens to iterate first.
anthropic_insert_first(props, entries) ==
    IF entries = <<>> THEN props
    ELSE insert(props, Head(entries).key, to_anthropic_schema(Head(entries).value))

\* for (key, value) in entries { props.insert(key, to_anthropic_schema(value)) }
RECURSIVE anthropic_insert_each(_, _)
anthropic_insert_each(props, entries) ==
    IF entries = <<>> THEN props
    ELSE anthropic_insert_each(
            insert(props, Head(entries).key, to_anthropic_schema(Head(entries).value)),
            Tail(entries))

\* The description inserted before the match on the kind.
anthropic_description(schema) ==
    IF is_some(schema.description)
    THEN insert(MapNew, k_description, JString(unwrap(schema.description)))
    ELSE MapNew

anthropic_object(obj, schema) ==
    LET props == anthropic_insert_each(MapNew, schema.properties)
    IN insert(insert(insert(obj, k_type, JString(v_object)),
                     k_properties, JObject(props)),
              k_required, JStrings(schema.required))

\* The Map rule without the key test: every map as an object of additional
\* properties.
anthropic_map_string_keys_only(obj, schema) ==
    insert(insert(obj, k_type, JString(v_object)),
           k_additionalProperties, to_anthropic_schema(schema.value))

anthropic_map(obj, schema) ==
    IF schema.key.kind = "String"
    THEN insert(insert(obj, k_type, JString(v_object)),
                k_additionalProperties, to_anthropic_schema(schema.value))
    ELSE LET tuple_schema == TypeKind_Tuple(<<schema.key, schema.value>>, None)
         IN insert(insert(obj, k_type, JString(v_array)),
                   k_items, to_anthropic_schema(tuple_schema))

\* The TaggedUnion rule without the discriminator property: the data fields
\* alone, under the same required list.
anthropic_tagged_union_data_only(obj, schema) ==
    LET properties == anthropic_insert_each(MapNew, schema.data_fields)
    IN insert(insert(insert(obj, k_type, JString(v_object)),
                     k_properties, JObject(properties)),
              k_required, JStrings(<<schema.tag_field>>))

anthropic_tagged_union(obj, schema) ==
    LET properties ==
            anthropic_insert_each(
                insert(MapNew, schema.tag_field, discriminator_field(schema.tag_variants)),
                schema.data_fields)
    IN insert(insert(insert(obj, k_type, JString(v_object)),
                     k_properties, JObject(properties)),
              k_required, JStrings(<<schema.tag_field>>))

\* anthropic_variant with the cases kept apart as alternatives, the way the
\* Union Projector renders them.
anthropic_variant_as_alternatives(obj, schema) ==
    LET tag_variants == [i \in 1..Len(schema.cases) |-> schema.cases[i].name]
    IN insert(obj, k_oneOf,
              JArray([i \in 1..Len(tag_variants) |->
                        discriminator_field(<<tag_variants[i]>>)]))

\* anthropic_variant with the payload fields collected from the last case
\* to the first: the last case that has a field decides its schema.
anthropic_variant_last_case_wins(obj, schema) ==
    LET n == Len(schema.cases)
        tag_variants == [i \in 1..n |-> schema.cases[i].name]
        all_fields == collect_all_fields(<<>>, [i \in 1..n |-> schema.cases[n + 1 - i]])
        properties ==
            anthropic_insert_each(
                insert(MapNew, k_type, discriminator_field(tag_variants)),
                all_fields)
    IN insert(insert(insert(obj, k_type, JString(v_object)),
                     k_properties, JObject(properties)),
              k_required, JStrings(<<k_type>>))

anthropic_variant(obj, schema) ==
    LET tag_variants == [i \in 1..Len(schema.cases) |-> schema.cases[i].name]
        all_fields == collect_all_fields(<<>>, schema.cases)
        properties ==
            anthropic_insert_each(
                insert(MapNew, k_type, discriminator_field(tag_variants)),
                all_fields)
    IN insert(insert(insert(obj, k_type, JString(v_object)),
                     k_properties, JObject(properties)),
              k_required, JStrings(<<k_type>>))

anthropic_result(obj, schema) ==
    LET properties == insert(insert(MapNew, k_ok, to_anthropic_schema(schema.ok)),
                             k_error, to_anthropic_schema(schema.err))
    IN insert(insert(insert(obj, k_type, JString(v_object)),
                     k_properties, JObject(properties)),
              k_description, JString(v_result_note))

\* The Tuple rule without the case of the empty tuple.
anthropic_tuple_without_empty_case(obj, schema) ==
    LET items == [i \in 1..Len(schema.fields) |->
                     to_anthropic_schema(schema.fields[i])]
    IN insert(insert(insert(insert(obj, k_type, JString(v_array)),
                            k_prefixItems, JArray(items)),
                     k_minItems, JNumber(Len(schema.fields))),
              k_maxItems, JNumber(Len(schema.fields)))

anthropic_tuple(obj, schema) ==
    IF schema.fields = <<>>
    THEN insert(insert(obj, k_type, JString(v_array)), k_maxItems, JNumber(0))
    ELSE LET items == [i \in 1..Len(schema.fields) |->
                          to_anthropic_schema(schema.fields[i])]
         IN insert(insert(insert(insert(obj, k_type, JString(v_array)),
                                 k_prefixItems, JArray(items)),
                          k_minItems, JNumber(Len(schema.fields))),
                   k_maxItems, JNumber(Len(schema.fields)))

anthropic_ref(schema) ==
    JObject(insert(MapNew, k_ref, JString(v_definitions \o schema.name)))

to_anthropic_schema(schema) ==
    LET obj == anthropic_description(schema)
    IN CASE schema.kind = "String" ->
              JObject(insert(obj, k_type, JString(v_string)))
         [] schema.kind = "Integer" ->
              JObject(insert(obj, k_type, JString(v_integer)))
         [] schema.kind = "Number" ->
              JObject(insert(obj, k_type, JString(v_number)))
         [] schema.kind = "Boolean" ->
              JObject(insert(obj, k_type, JString(v_boolean)))
         [] schema.kind = "Null" ->
              JObject(insert(obj, k_type, JString(v_null)))
         [] schema.kind = "Object" ->
              JObject(anthropic_object(obj, schema))
         [] schema.kind = "Array" ->
              JObject(insert(insert(obj, k_type, JString(v_array)),
                             k_items, to_anthropic_schema(schema.items)))
         [] schema.kind = "Set" ->
              JObject(insert(insert(insert(obj, k_type, JString(v_array)),
                                    k_items, to_anthropic_schema(schema.items)),
                             k_uniqueItems, JBool(TRUE)))
         [] schema.kind = "Map" ->
              JObject(anthropic_map(obj, schema))
         [] schema.kind = "Enum" ->
              JObject(insert(insert(obj, k_type, JString(v_string)),
                             k_enum, JStrings(schema.variants)))
         [] schema.kind = "TaggedUnion" ->
              JObject(anthropic_tagged_union(obj, schema))
         [] schema.kind = "Variant" ->
              JObject(anthropic_variant(obj, schema))
         [] schema.kind = "Result" ->
              JObject(anthropic_result(obj, schema))
         [] schema.kind = "Tuple" ->
              JObject(anthropic_tuple(obj, schema))
         [] schema.kind = "Ref" ->
              anthropic_ref(schema)

\* The envelope without the description.
create_tool_schema_without_description(name, description, input_schema) ==
    JObject(insert(insert(MapNew, k_name, JString(name)),
                   k_input_schema, to_anthropic_schema(input_schema)))

create_tool_schema(name, description, input_schema) ==
    JObject(insert(insert(insert(MapNew, k_name, JString(name)),
                          k_description, JString(description)),
                   k_input_schema, to_anthropic_schema(input_schema)))
(***************************************************************************)
(* Union Projector: schema-openapi                                         *)
(***************************************************************************)

\* The match in schema_type_to_openapi has no arm for TypeKind::Set and
\* TypeKind::Map: no value is defined for them.
NoArm ==
    [t |-> "NoArm"]

RECURSIVE schema_type_to_openapi(_)

\* entries.iter().map(|(k, v)| (k.clone(), schema_type_to_openapi(v))).collect()
RECURSIVE openapi_collect(_, _)
openapi_collect(props, entries) ==
    IF entries = <<>> THEN props
    ELSE openapi_collect(
            insert(props, Head(entries).key, schema_type_to_openapi(Head(entries).value)),
            Tail(entries))

\* openapi_object with the properties taken from the required list only.
openapi_object_required_only(schema) ==
    LET props == openapi_collect(MapNew,
                     SelectSeq(schema.properties,
                               LAMBDA e : SeqContains(schema.required, e.key)))
        obj == insert(insert(MapNew, k_type, JString(v_object)),
                      k_properties, JObject(props))
    IN IF schema.required # <<>>
       THEN JObject(insert(obj, k_required, JStrings(schema.required)))
       ELSE JObject(obj)

openapi_object(schema) ==
    LET props == openapi_collect(MapNew, schema.properties)
        obj == insert(insert(MapNew, k_type, JString(v_object)),
                      k_properties, JObject(props))
    IN IF schema.required # <<>>
       THEN JObject(insert(obj, k_required, JStrings(schema.required)))
       ELSE JObject(obj)

\* A branch that admits every variant instead of its own.
openapi_tagged_branch_any_variant(schema, variant) ==
    LET props == insert(openapi_collect(MapNew, schema.data_fields),
                        schema.tag_field,
                        JObject(insert(insert(MapNew, k_type, JString(v_string)),
                                       k_enum, JStrings(schema.tag_variants))))
    IN JObject(insert(insert(insert(MapNew, k_type, JString(v_object)),
                             k_properties, JObject(props)),
                      k_required, JStrings(<<schema.tag_field>>)))

\* One oneOf branch of the TaggedUnion rule.
openapi_tagged_branch(schema, variant) ==
    LET props == insert(openapi_collect(MapNew, schema.data_fields),
                        schema.tag_field,
                        JObject(insert(insert(MapNew, k_type, JString(v_string)),
                                       k_enum, JStrings(<<variant>>))))
    IN JObject(insert(insert(insert(MapNew, k_type, JString(v_object)),
                             k_properties, JObject(props)),
                      k_required, JStrings(<<schema.tag_field>>)))

openapi_tagged_union(schema) ==
    LET schemas == [i \in 1..Len(schema.tag_variants) |->
                       openapi_tagged_branch(schema, schema.tag_variants[i])]
    IN JObject(insert(insert(MapNew, k_oneOf, JArray(schemas)),
                      k_discriminator,
                      JObject(insert(MapNew, k_propertyName, JString(schema.tag_field)))))

\* openapi_variant_case with only the tag required in a data case.
openapi_variant_case_tag_only(case) ==
    IF ~is_some(case.data)
    THEN JObject(insert(insert(MapNew, k_type, JString(v_string)),
                        k_const, JString(case.name)))
    ELSE LET data_schema == schema_type_to_openapi(unwrap(case.data))
             tag == JObject(insert(insert(MapNew, k_type, JString(v_string)),
                                   k_const, JString(case.name)))
             obj == insert(insert(insert(MapNew, k_type, JString(v_object)),
                                  k_properties,
                                  JObject(insert(insert(MapNew, k_type, tag),
                                                 k_data, data_schema))),
                           k_required, JStrings(<<k_type>>))
         IN IF is_some(case.description)
            THEN JObject(insert(obj, k_description, JString(unwrap(case.description))))
            ELSE JObject(obj)

\* One oneOf branch of the Variant rule.
openapi_variant_case(case) ==
    IF ~is_some(case.data)
    THEN JObject(insert(insert(MapNew, k_type, JString(v_string)),
                        k_const, JString(case.name)))
    ELSE LET data_schema == schema_type_to_openapi(unwrap(case.data))
             tag == JObject(insert(insert(MapNew, k_type, JString(v_string)),
                                   k_const, JString(case.name)))
             obj == insert(insert(insert(MapNew, k_type, JString(v_object)),
                                  k_properties,
                                  JObject(insert(insert(MapNew, k_type, tag),
                                                 k_data, data_schema))),
                           k_required, JStrings(<<k_type, k_data>>))
         IN IF is_some(case.description)
            THEN JObject(insert(obj, k_description, JString(unwrap(case.description))))
            ELSE JObject(obj)

openapi_variant(schema) ==
    LET schemas == [i \in 1..Len(schema.cases) |-> openapi_variant_case(schema.cases[i])]
    IN JObject(insert(MapNew, k_oneOf, JArray(schemas)))

openapi_result(schema) ==
    LET branch(key, value) ==
            JObject(insert(insert(insert(MapNew, k_type, JString(v_object)),
                                  k_properties, JObject(insert(MapNew, key, value))),
                           k_required, JStrings(<<key>>)))
    IN JObject(insert(MapNew, k_oneOf,
                      JArray(<<branch(k_ok, schema_type_to_openapi(schema.ok)),
                               branch(k_error, schema_type_to_openapi(schema.err))>>)))

\* The Tuple rule with the upper length bound alone.
openapi_tuple_without_min_items(schema) ==
    IF schema.fields = <<>>
    THEN JObject(insert(insert(MapNew, k_type, JString(v_array)), k_maxItems, JNumber(0)))
    ELSE LET items == [i \in 1..Len(schema.fields) |->
                          schema_type_to_openapi(schema.fields[i])]
         IN JObject(insert(insert(insert(MapNew, k_type, JString(v_array)),
                                  k_prefixItems, JArray(items)),
                           k_maxItems, JNumber(Len(schema.fields))))

openapi_tuple(schema) ==
    IF schema.fields = <<>>
    THEN JObject(insert(insert(MapNew, k_type, JString(v_array)), k_maxItems, JNumber(0)))
    ELSE LET items == [i \in 1..Len(schema.fields) |->
                          schema_type_to_openapi(schema.fields[i])]
         IN JObject(insert(insert(insert(insert(MapNew, k_type, JString(v_array)),
                                         k_prefixItems, JArray(items)),
                                  k_minItems, JNumber(Len(schema.fields))),
                           k_maxItems, JNumber(Len(schema.fields))))

\* The value built by the match on the kind, before the description.
openapi_kind(schema) ==
    CASE schema.kind = "String" -> JObject(insert(MapNew, k_type, JString(v_string)))
      [] schema.kind = "Number" -> JObject(insert(MapNew, k_type, JString(v_number)))
      [] schema.kind = "Integer" -> JObject(insert(MapNew, k_type, JString(v_integer)))
      [] schema.kind = "Boolean" -> JObject(insert(MapNew, k_type, JString(v_boolean)))
      [] schema.kind = "Null" -> JObject(insert(MapNew, k_type, JString(v_null)))
      [] schema.kind = "Array" ->
           JObject(insert(insert(MapNew, k_type, JString(v_array)),
                          k_items, schema_type_to_openapi(schema.items)))
      [] schema.kind = "Object" -> openapi_object(schema)
      [] schema.kind = "Enum" ->
           JObject(insert(insert(MapNew, k_type, JString(v_string)),
                          k_enum, JStrings(schema.variants)))
      [] schema.kind = "TaggedUnion" -> openapi_tagged_union(schema)
      [] schema.kind = "Variant" -> openapi_variant(schema)
      [] schema.kind = "Result" -> openapi_result(schema)
      [] schema.kind = "Tuple" -> openapi_tuple(schema)
      [] schema.kind = "Ref" ->
           JObject(insert(MapNew, k_ref, JString(v_components_schemas \o schema.name)))
      [] OTHER -> NoArm

schema_type_to_openapi(schema) ==
    LET result == openapi_kind(schema)
    IN IF is_some(schema.description) /\ is_object(result)
       THEN JObject(insert(result.m, k_description, JString(unwrap(schema.description))))
       ELSE result

(***************************************************************************)
(* Interface-Text Projector: schema-wit                                    *)
(***************************************************************************)

\* The match in schema_type_to_wit has no arm for TypeKind::Set and
\* TypeKind::Map: no text is defined for them.  The marker is not a
\* character, so it never occurs in text the projector does produce.
NoArmText ==
    <<"<no match arm>">>

RECURSIVE to_kebab_case_from(_, _, _)
to_kebab_case_from(s, i, result) ==
    IF i > Len(s) THEN result
    ELSE LET ch == s[i]
         IN IF is_uppercase(ch)
            THEN to_kebab_case_from(s, i + 1,
                    (IF result # <<>> THEN Append(result, "-") ELSE result)
                        \o <<to_lowercase(ch)>>)
            ELSE IF ch = "_"
            THEN to_kebab_case_from(s, i + 1, Append(result, "-"))
            ELSE to_kebab_case_from(s, i + 1, Append(result, ch))

\* Lowercasing alone, without the separators.
to_kebab_case_lowercase_only(s) ==
    str_to_lowercase(s)

to_kebab_case(s) ==
    to_kebab_case_from(s, 1, <<>>)

integer_to_wit(kind) ==
    CASE kind = "I32" -> w_s32
      [] kind = "I64" -> w_s64
      [] kind = "U8" -> w_u8
      [] kind = "U32" -> w_u32
      [] kind = "U64" -> w_u64
      [] kind = "Usize" -> w_u64

number_to_wit(kind) ==
    CASE kind = "F32" -> w_f32
      [] kind = "F64" -> w_f64

\* for line in desc.lines() { output.push_str(&format!("<indent>/// {}\n", line)) }
doc_comment(indent, description) ==
    IF is_some(description)
    THEN LET ls == lines(unwrap(description))
         IN Concat([i \in 1..Len(ls) |-> indent \o w_doc \o ls[i] \o w_newline])
    ELSE <<>>

\* fields.sort_by_key(|(name, _)| *name): insertion into ascending key order.
RECURSIVE sort_insert(_, _)
sort_insert(sorted, e) ==
    IF sorted = <<>> THEN <<e>>
    ELSE IF StrLess(e.key, Head(sorted).key) THEN <<e>> \o sorted
    ELSE <<Head(sorted)>> \o sort_insert(Tail(sorted), e)

RECURSIVE sort_from(_, _, _)
sort_from(fields, i, sorted) ==
    IF i > Len(fields) THEN sorted
    ELSE sort_from(fields, i + 1, sort_insert(sorted, fields[i]))

\* sort_by_key left out: the fields stay in the map's iteration order.
sort_by_key_skipped(fields) ==
    fields

\* sort_by_key with the comparison reversed: descending key order.
sort_by_key_descending(fields) ==
    LET sorted == sort_from(fields, 1, <<>>)
    IN [i \in 1..Len(sorted) |-> sorted[Len(sorted) + 1 - i]]

sort_by_key(fields) ==
    sort_from(fields, 1, <<>>)

RECURSIVE schema_type_to_wit(_, _)

\* The loop body without the test of the required list.
record_field_never_optional(field, required) ==
    doc_comment(w_indent, field.value.description)
    \o w_indent \o to_kebab_case(field.key) \o w_colon
    \o schema_type_to_wit(field.value, None) \o w_comma_newline

\* The body of the loop over the sorted fields of a record.
record_field(field, required) ==
    LET field_type == schema_type_to_wit(field.value, None)
        is_optional == ~SeqContains(required, field.key)
        final_type == IF is_optional
                      THEN w_option_open \o field_type \o w_close_angle
                      ELSE field_type
    IN doc_comment(w_indent, field.value.description)
       \o w_indent \o to_kebab_case(field.key) \o w_colon \o final_type
       \o w_comma_newline

record_to_wit(properties, required, type_name, description) ==
    LET name == IF is_some(type_name) THEN unwrap(type_name) ELSE w_anonymous_record
        fields == sort_by_key(properties)
    IN doc_comment(<<>>, description)
       \o w_record \o to_kebab_case(name) \o w_open_brace
       \o Concat([i \in 1..Len(fields) |-> record_field(fields[i], required)])
       \o w_close_brace

enum_to_wit(variants, type_name, description) ==
    LET name == IF is_some(type_name) THEN unwrap(type_name) ELSE w_anonymous_enum
    IN doc_comment(<<>>, description)
       \o w_enum \o to_kebab_case(name) \o w_open_brace
       \o Concat([i \in 1..Len(variants) |->
                    w_indent \o to_kebab_case(variants[i]) \o w_comma_newline])
       \o w_close_brace

\* The body of the loop over the cases of a variant.
variant_case(case) ==
    doc_comment(w_indent, case.description)
    \o (IF ~is_some(case.data)
        THEN w_indent \o to_kebab_case(case.name) \o w_comma_newline
        ELSE w_indent \o to_kebab_case(case.name) \o w_open_paren
             \o schema_type_to_wit(unwrap(case.data), None) \o w_close_paren_comma)

\* variant_to_wit over the cases keyed by name: one case per name, in
\* ascending name order.
variant_to_wit_keyed(cases, type_name, description) ==
    LET name == IF is_some(type_name) THEN unwrap(type_name) ELSE w_anonymous_variant
        names == SortedKeys({cases[i].name : i \in 1..Len(cases)})
        keyed == [i \in 1..Len(names) |->
                    cases[CHOOSE j \in 1..Len(cases) : cases[j].name = names[i]]]
    IN doc_comment(<<>>, description)
       \o w_variant \o to_kebab_case(name) \o w_open_brace
       \o Concat([i \in 1..Len(keyed) |-> variant_case(keyed[i])])
       \o w_close_brace

variant_to_wit(cases, type_name, description) ==
    LET name == IF is_some(type_name) THEN unwrap(type_name) ELSE w_anonymous_variant
    IN doc_comment(<<>>, description)
       \o w_variant \o to_kebab_case(name) \o w_open_brace
       \o Concat([i \in 1..Len(cases) |-> variant_case(cases[i])])
       \o w_close_brace

tuple_to_wit(fields) ==
    IF fields = <<>> THEN w_unit
    ELSE w_tuple_open
         \o join([i \in 1..Len(fields) |-> schema_type_to_wit(fields[i], None)],
                 w_comma_space)
         \o w_close_angle

schema_type_to_wit(schema, type_name) ==
    CASE schema.kind = "String" -> w_string
      [] schema.kind = "Boolean" -> w_bool
      [] schema.kind = "Null" -> w_unit
      [] schema.kind = "Integer" -> integer_to_wit(schema.int)
      [] schema.kind = "Number" -> number_to_wit(schema.num)
      [] schema.kind = "Array" ->
           w_list_open \o schema_type_to_wit(schema.items, None) \o w_close_angle
      [] schema.kind = "Object" ->
           record_to_wit(schema.properties, schema.required, type_name,
                         schema.description)
      [] schema.kind = "Enum" ->
           enum_to_wit(schema.variants, type_name, schema.description)
      [] schema.kind = "Variant" ->
           variant_to_wit(schema.cases, type_name, schema.description)
      [] schema.kind = "Result" ->
           w_result_open \o schema_type_to_wit(schema.ok, None) \o w_comma_space
           \o schema_type_to_wit(schema.err, None) \o w_close_angle
      [] schema.kind = "Tuple" -> tuple_to_wit(schema.fields)
      [] schema.kind = "TaggedUnion" -> w_tagged_union_placeholder
      [] schema.kind = "Ref" -> to_kebab_case(schema.name)
      [] OTHER -> NoArmText

(***************************************************************************)
(* Schema implementations of the built-in types: schema/src/lib.rs         *)
(***************************************************************************)

\* A native type expression: the last path segment and its type arguments.
Type(path, args) ==
    [path |-> path, args |-> args]

\* impl<T: Schema> Schema for Option<T>
Option_schema(T) ==
    T

\* impl<T: Schema> Schema for Vec<T>
Vec_schema(T) ==
    TypeKind_Array(T, None)

\* impl<K: Schema, V: Schema> Schema for HashMap<K, V>
HashMap_schema(K, V) ==
    TypeKind_Map(K, V, FALSE, Some(s_hash_map))

\* impl<T: Schema> Schema for HashSet<T>
HashSet_schema(T) ==
    TypeKind_Set(T, FALSE, Some(s_hash_set))

\* A BTreeMap described the way a HashMap is.
BTreeMap_schema_as_hash_map(K, V) ==
    TypeKind_Map(K, V, FALSE, Some(s_hash_map))

\* impl<K: Schema, V: Schema> Schema for BTreeMap<K, V>
BTreeMap_schema(K, V) ==
    TypeKind_Map(K, V, TRUE, Some(s_btree_map))

\* impl<T: Schema> Schema for BTreeSet<T>
BTreeSet_schema(T) ==
    TypeKind_Set(T, TRUE, Some(s_btree_set))

\* impl<T: Schema> Schema for LinkedList<T>
LinkedList_schema(T) ==
    TypeKind_Array(T, Some(s_linked_list))

\* impl<T: Schema, E: Schema> Schema for Result<T, E>
Result_schema(T, E) ==
    TypeKind_Result(T, E, None)

\* impl Schema for (T1,), (T1, T2), (T1, T2, T3) and (T1, T2, T3, T4)
Tuple_schema(Ts) ==
    TypeKind_Tuple(Ts, None)

RECURSIVE Schema_schema(_)
Schema_schema(ty) ==
    CASE ty.path = "String" -> TypeKind_String(None)
      [] ty.path = "i32" -> TypeKind_Integer("I32", None)
      [] ty.path = "i64" -> TypeKind_Integer("I64", None)
      [] ty.path = "u8" -> TypeKind_Integer("U8", None)
      [] ty.path = "u32" -> TypeKind_Integer("U32", None)
      [] ty.path = "u64" -> TypeKind_Integer("U64", None)
      [] ty.path = "usize" -> TypeKind_Integer("Usize", None)
      [] ty.path = "f32" -> TypeKind_Number("F32", None)
      [] ty.path = "f64" -> TypeKind_Number("F64", None)
      [] ty.path = "bool" -> TypeKind_Boolean(None)
      [] ty.path = "()" -> TypeKind_Object(<<>>, <<>>, None)
      [] ty.path = "PathBuf" -> TypeKind_String(Some(s_path))
      [] ty.path = "Value" -> TypeKind_Object(<<>>, <<>>, Some(s_json_value))
      [] ty.path = "Option" -> Option_schema(Schema_schema(ty.args[1]))
      [] ty.path = "Vec" -> Vec_schema(Schema_schema(ty.args[1]))
      [] ty.path = "HashMap" ->
           HashMap_schema(Schema_schema(ty.args[1]), Schema_schema(ty.args[2]))
      [] ty.path = "HashSet" -> HashSet_schema(Schema_schema(ty.args[1]))
      [] ty.path = "BTreeMap" ->
           BTreeMap_schema(Schema_schema(ty.args[1]), Schema_schema(ty.args[2]))
      [] ty.path = "BTreeSet" -> BTreeSet_schema(Schema_schema(ty.args[1]))
      [] ty.path = "LinkedList" -> LinkedList_schema(Schema_schema(ty.args[1]))
      [] ty.path = "Result" ->
           Result_schema(Schema_schema(ty.args[1]), Schema_schema(ty.args[2]))
      [] ty.path = "Tuple" ->
           Tuple_schema([i \in 1..Len(ty.args) |-> Schema_schema(ty.args[i])])

(***************************************************************************)
(* Derivation: schema-derive                                               *)
(***************************************************************************)

\* A named field of a struct or of an enum variant.  attrs holds the values
\* of the field's doc attributes; skip is the presence of #[schema(skip)].
Field(ident, ty, attrs, skip) ==
    [ident |-> ident, ty |-> ty, attrs |-> attrs, skip |-> skip]

\* syn::Fields: style is "Named", "Unnamed" or "Unit".
Fields(style, named) ==
    [style |-> style, named |-> named]

EnumVariant(ident, fields, attrs) ==
    [ident |-> ident, fields |-> fields, attrs |-> attrs]

\* syn::DeriveInput: data is "Struct", "Enum" or "Union".
DeriveInput(data, ident, attrs, fields, variants) ==
    [data |-> data, ident |-> ident, attrs |-> attrs, fields |-> fields,
     variants |-> variants]

\* The expansion does not compile: compile_error!(message).
compile_error(message) ==
    [kind |-> "compile_error", message |-> message]

extract_docs(attrs) ==
    IF attrs = <<>> THEN None
    ELSE Some(trim(join([i \in 1..Len(attrs) |-> trim(attrs[i])], w_newline)))

is_skipped(field) ==
    field.skip

is_option_type(ty) ==
    ty.path = "Option"

description_expr(attrs) ==
    extract_docs(attrs)

schema_with_description(field_type, field_attrs) ==
    LET docs == extract_docs(field_attrs)
    IN IF is_some(docs)
       THEN [Schema_schema(field_type) EXCEPT !.description = docs]
       ELSE Schema_schema(field_type)

\* The loop of derive_struct over the named fields: the properties.insert
\* statements of the expansion, in declaration order.
RECURSIVE struct_properties(_)
struct_properties(named) ==
    IF named = <<>> THEN <<>>
    ELSE IF is_skipped(Head(named)) THEN struct_properties(Tail(named))
    ELSE LET field == Head(named)
         IN <<Entry(field.ident, schema_with_description(field.ty, field.attrs))>>
            \o struct_properties(Tail(named))

\* The required.push statements without the test of is_option_type.
struct_required_with_optional(named) ==
    LET kept == SelectSeq(named, LAMBDA field : ~is_skipped(field))
    IN [i \in 1..Len(kept) |-> kept[i].ident]

\* The required.push statements of the expansion, in declaration order.
RECURSIVE struct_required(_)
struct_required(named) ==
    IF named = <<>> THEN <<>>
    ELSE LET field == Head(named)
         IN IF is_skipped(field) \/ is_option_type(field.ty)
            THEN struct_required(Tail(named))
            ELSE <<field.ident>> \o struct_required(Tail(named))

derive_struct(data, attrs) ==
    CASE data.fields.style = "Named" ->
           TypeKind_Object(struct_properties(data.fields.named),
                           struct_required(data.fields.named),
                           description_expr(attrs))
      [] data.fields.style = "Unnamed" ->
           compile_error("Schema derive does not support tuple structs")
      [] data.fields.style = "Unit" ->
           TypeKind_Object(<<>>, <<>>, description_expr(attrs))

\* The loop of derive_enum over the named fields of the variants: the first
\* field of a name fills all_data_fields, later ones of that name are dropped.
RECURSIVE enum_variant_fields(_, _)
enum_variant_fields(all_data_fields, named) ==
    IF named = <<>> THEN all_data_fields
    ELSE LET field == Head(named)
         IN enum_variant_fields(
                IF field.ident \in Keys(all_data_fields) THEN all_data_fields
                ELSE Append(all_data_fields,
                            Entry(field.ident,
                                  schema_with_description(field.ty, field.attrs))),
                Tail(named))

RECURSIVE enum_data_fields(_, _)
enum_data_fields(all_data_fields, variants) ==
    IF variants = <<>> THEN all_data_fields
    ELSE enum_data_fields(
            IF Head(variants).fields.style = "Named"
            THEN enum_variant_fields(all_data_fields, Head(variants).fields.named)
            ELSE all_data_fields,
            Tail(variants))

derive_enum(data, attrs) ==
    LET all_unit == \A i \in 1..Len(data.variants) :
                        data.variants[i].fields.style = "Unit"
        names == [i \in 1..Len(data.variants) |->
                     str_to_lowercase(data.variants[i].ident)]
    IN IF all_unit
       THEN TypeKind_Enum(names, description_expr(attrs))
       ELSE TypeKind_TaggedUnion(derive_tag_field, names,
                                 enum_data_fields(<<>>, data.variants),
                                 description_expr(attrs))

derive_schema(input) ==
    CASE input.data = "Struct" -> derive_struct(input, input.attrs)
      [] input.data = "Enum" -> derive_enum(input, input.attrs)
      [] input.data = "Union" ->
           compile_error("Schema derive does not support unions")

(***************************************************************************)
(* Names and documentation strings of the inputs                          *)
(***************************************************************************)

n_name ==
    <<"n", "a", "m", "e">>

n_age ==
    <<"a", "g", "e">>

n_type ==
    <<"t", "y", "p", "e">>

n_value ==
    <<"v", "a", "l", "u", "e">>

n_oneOf ==
    <<"o", "n", "e", "O", "f">>

n_Person ==
    <<"P", "e", "r", "s", "o", "n">>

n_click ==
    <<"c", "l", "i", "c", "k">>

n_fill ==
    <<"f", "i", "l", "l">>

n_Click ==
    <<"C", "l", "i", "c", "k">>

n_Fill ==
    <<"F", "i", "l", "l">>

n_snake_case ==
    <<"s", "n", "a", "k", "e", "_", "c", "a", "s", "e">>

n_PascalCase ==
    <<"P", "a", "s", "c", "a", "l", "C", "a", "s", "e">>

n_camelCase ==
    <<"c", "a", "m", "e", "l", "C", "a", "s", "e">>

n_already_kebab ==
    <<"a", "l", "r", "e", "a", "d", "y", "-", "k", "e", "b", "a", "b">>

d_identifier ==
    <<"U", "n", "i", "q", "u", "e", " ", "i", "d", "e", "n", "t", "i", "f", "i", "e", "r">>

d_oneOf ==
    <<"o", "n", "e", "O", "f", " ", "t", "h", "e", " ", "a", "c", "t", "i", "o", "n", "s">>

doc_person ==
    <<" ", "A", " ", "p", "e", "r", "s", "o", "n">>

(***************************************************************************)
(* Inputs                                                                  *)
(***************************************************************************)

MaxFields ==
    2

MaxCases ==
    2

MaxTuple ==
    2

\* All sequences over S of length at most n.
RECURSIVE SeqsUpTo(_, _)
SeqsUpTo(S, n) ==
    IF n = 0 THEN {<<>>}
    ELSE LET shorter == SeqsUpTo(S, n - 1)
         IN shorter \cup {Append(s, x) : s \in shorter, x \in S}

\* The sequences of SeqsUpTo(S, n) without a repeated element.
DistinctSeqsUpTo(S, n) ==
    {s \in SeqsUpTo(S, n) : \A i, j \in 1..Len(s) : i # j => s[i] # s[j]}

\* The sequences over S in which the elements appear in strictly ascending
\* name order: one representative for each set of at most n names.
AscendingSeqsUpTo(S, n) ==
    {s \in SeqsUpTo(S, n) : \A i \in 1..(Len(s) - 1) : StrLess(s[i], s[i + 1])}

Descriptions ==
    {None, Some(d_identifier)}

Primitives ==
    {TypeKind_String(d) : d \in Descriptions \cup {Some(d_oneOf)}}
    \cup {TypeKind_Integer(k, d) : k \in IntegerKind, d \in Descriptions}
    \cup {TypeKind_Number(k, d) : k \in NumberKind, d \in Descriptions}
    \cup {TypeKind_Boolean(d) : d \in Descriptions}
    \cup {TypeKind_Null(d) : d \in Descriptions}
    \cup {TypeKind_Ref(n, d) : n \in {n_Person, n_oneOf}, d \in Descriptions}

\* Field schemas of the generated records and unions.
Elements ==
    {TypeKind_String(None), TypeKind_Integer("U32", None),
     TypeKind_String(Some(d_identifier))}

FieldNames ==
    {n_name, n_age, n_type}

\* All sequences over S of length exactly n.
SeqsOfLen(S, n) ==
    [1..n -> S]

Range(s) ==
    {s[i] : i \in 1..Len(s)}

\* A HashMap with the keys ks, in that iteration order, and the values vs.
Zip(ks, vs) ==
    [i \in 1..Len(ks) |-> Entry(ks[i], vs[i])]

\* The maps over at most MaxFields of the names, with values in elements.
Maps(names, elements) ==
    UNION {{Zip(ks, vs) : vs \in SeqsOfLen(elements, Len(ks))} :
              ks \in AscendingSeqsUpTo(names, MaxFields)}

\* Objects: every map, with every required list over its keys.
Objects(names, elements, descriptions) ==
    UNION {{TypeKind_Object(m, r, d) :
                r \in DistinctSeqsUpTo(Keys(m), Len(m)), d \in descriptions} :
              m \in Maps(names, elements)}

FlatObjects ==
    Objects(FieldNames, Elements, Descriptions)

\* struct Person { name: String, age: Option<u32> }, as derived.
PersonRecord ==
    TypeKind_Object(<<Entry(n_name, TypeKind_String(None)),
                      Entry(n_age, TypeKind_Integer("U32", None))>>,
                    <<n_name>>, None)

NestedObjects ==
    Objects({n_value, n_age},
            {PersonRecord, TypeKind_Array(PersonRecord, None)}, {None})

\* Children of the generated collections, results and tuples.
Children ==
    {TypeKind_String(None), TypeKind_Integer("U32", None),
     TypeKind_String(Some(d_identifier)), PersonRecord,
     TypeKind_Ref(n_Person, None)}

Collections ==
    {TypeKind_Array(c, d) : c \in Children, d \in Descriptions}
    \cup {TypeKind_Set(c, o, d) : c \in Children, o \in BOOLEAN, d \in Descriptions}
    \cup {TypeKind_Map(k, c, o, d) :
            k \in {TypeKind_String(None), TypeKind_Integer("U32", None)},
            c \in Children, o \in BOOLEAN, d \in Descriptions}
    \cup {TypeKind_Result(c1, c2, d) :
            c1 \in Children, c2 \in Children, d \in Descriptions}
    \cup {TypeKind_Tuple(fs, d) :
            fs \in SeqsUpTo(Children, MaxTuple), d \in Descriptions}

Enums ==
    {TypeKind_Enum(vs, d) :
        vs \in SeqsUpTo({n_click, n_fill, n_oneOf}, MaxCases), d \in Descriptions}

TaggedUnions ==
    {TypeKind_TaggedUnion(tag, vs, m, d) :
        tag \in {n_type, n_name},
        vs \in SeqsUpTo({n_click, n_fill}, MaxCases),
        m \in Maps({n_type, n_value},
                   {TypeKind_String(None), TypeKind_Integer("U32", None)}),
        d \in Descriptions}

ValueRecord ==
    TypeKind_Object(<<Entry(n_value, TypeKind_String(None))>>, <<n_value>>, None)

TypeValueRecord ==
    TypeKind_Object(<<Entry(n_value, TypeKind_Integer("U32", None)),
                      Entry(n_type, TypeKind_String(None))>>, <<>>, None)

Cases ==
    {VariantCase(n_click, None, None),
     VariantCase(n_click, None, Some(d_identifier)),
     VariantCase(n_fill, Some(ValueRecord), None),
     VariantCase(n_fill, Some(ValueRecord), Some(d_identifier)),
     VariantCase(n_fill, Some(TypeKind_String(None)), None),
     VariantCase(n_click, Some(TypeValueRecord), None)}

Variants ==
    {TypeKind_Variant(cs, d) : cs \in SeqsUpTo(Cases, MaxCases), d \in Descriptions}

\* The hand-built IR trees.
Schemas ==
    Primitives \cup FlatObjects \cup NestedObjects \cup Collections \cup Enums
    \cup TaggedUnions \cup Variants

NoDocs ==
    <<>>

NativeFields ==
    {Field(n_name, Type("String", <<>>), NoDocs, FALSE),
     Field(n_name, Type("String", <<>>), <<doc_person>>, TRUE),
     Field(n_age, Type("u32", <<>>), NoDocs, FALSE),
     Field(n_age, Type("Option", <<Type("u32", <<>>)>>), <<doc_person>>, FALSE),
     Field(n_value, Type("Vec", <<Type("String", <<>>)>>), NoDocs, FALSE)}

\* Field lists of a native definition: no identifier is declared twice.
NativeFieldLists ==
    {fs \in SeqsUpTo(NativeFields, MaxFields) :
        \A i, j \in 1..Len(fs) : i # j => fs[i].ident # fs[j].ident}

NativeStructs ==
    {DeriveInput("Struct", n_Person, a, Fields("Named", fs), <<>>) :
        a \in {NoDocs, <<doc_person>>}, fs \in NativeFieldLists}
    \cup {DeriveInput("Struct", n_Person, NoDocs, Fields("Unnamed", <<>>), <<>>),
          DeriveInput("Struct", n_Person, <<doc_person>>, Fields("Unit", <<>>), <<>>)}

NativeVariants ==
    {EnumVariant(n_Click, Fields("Unit", <<>>), NoDocs),
     EnumVariant(n_Fill, Fields("Unit", <<>>), <<doc_person>>),
     EnumVariant(n_Click,
                 Fields("Named", <<Field(n_name, Type("String", <<>>), NoDocs, FALSE)>>),
                 NoDocs),
     EnumVariant(n_Fill,
                 Fields("Named", <<Field(n_value, Type("String", <<>>), <<doc_person>>, FALSE),
                                   Field(n_name, Type("u32", <<>>), NoDocs, FALSE)>>),
                 <<doc_person>>),
     EnumVariant(n_Fill, Fields("Unnamed", <<>>), NoDocs)}

NativeEnums ==
    {DeriveInput("Enum", n_Person, a, Fields("Unit", <<>>), vs) :
        a \in {NoDocs, <<doc_person>>},
        vs \in {v \in SeqsUpTo(NativeVariants, MaxCases) :
                   \A i, j \in 1..Len(v) : i # j => v[i].ident # v[j].ident}}

NativeUnions ==
    {DeriveInput("Union", n_Person, NoDocs, Fields("Unit", <<>>), <<>>)}

\* The arities of the tuples that implement Schema.
TupleArities ==
    1..4

NativeScalars ==
    {Type(p, <<>>) : p \in {"String", "i32", "i64", "u8", "u32", "u64", "usize",
                            "f32", "f64", "bool", "()", "PathBuf", "Value"}}

\* Type arguments of the generated built-in types.
NativeArguments ==
    {Type("String", <<>>), Type("u32", <<>>),
     Type("Option", <<Type("String", <<>>)>>),
     Type("Vec", <<Type("Option", <<Type("u32", <<>>)>>)>>),
     Type("HashSet", <<Type("String", <<>>)>>),
     Type("PathBuf", <<>>)}

NativeKeys ==
    {Type("String", <<>>), Type("u32", <<>>), Type("Option", <<Type("String", <<>>)>>)}

\* The built-in types whose Schema implementation is asked for.
NativeTypes ==
    NativeScalars
    \cup {Type(p, <<a>>) : p \in {"Option", "Vec", "HashSet", "BTreeSet", "LinkedList"},
                           a \in NativeArguments}
    \cup {Type(p, <<k, a>>) : p \in {"HashMap", "BTreeMap"},
                              k \in NativeKeys, a \in NativeArguments}
    \cup {Type("Result", <<a, e>>) : a \in NativeArguments, e \in NativeKeys}
    \cup UNION {{Type("Tuple", args) : args \in SeqsOfLen(NativeKeys, n)} :
                   n \in TupleArities}

\* T::schema() of a built-in type T is asked for.
BuiltinInput(ty) ==
    [data |-> "Type", ty |-> ty]

\* The native definitions handed to #[derive(Schema)].
DeriveInputs ==
    NativeStructs \cup NativeEnums \cup NativeUnions

(***************************************************************************)
(* State                                                                   *)
(***************************************************************************)

VARIABLES
    input,      \* the native definition under #[derive(Schema)], or NoInput
    schema,     \* the SchemaType tree, NotBuilt before derivation
    type_name,  \* Schema::type_name() of the type
    anthropic,  \* the value returned by to_anthropic_schema, or NotRun
    openapi,    \* the value returned by to_openapi_schema, or NotRun
    wit,        \* the text returned by to_wit_type, or NotRun
    tool        \* the last call of create_tool_schema, or NotRun

vars ==
    <<input, schema, type_name, anthropic, openapi, wit, tool>>

NoInput ==
    [data |-> "None"]

NotBuilt ==
    [kind |-> "NotBuilt"]

NotRun ==
    [t |-> "NotRun"]

\* The String returned by to_wit_type.
Text(text) ==
    [t |-> "Text", text |-> text]

\* A call of create_tool_schema: its name and description arguments and the
\* value it returned.
Call(name, description, returned) ==
    [t |-> "Call", name |-> name, description |-> description, returned |-> returned]

\* A SchemaType exists: it was hand-built, or the derivation compiled.
Built ==
    schema.kind \notin {"NotBuilt", "compile_error"}

Init ==
    /\ \/ /\ input = NoInput
          /\ schema \in Schemas
       \/ /\ input \in DeriveInputs \cup {BuiltinInput(ty) : ty \in NativeTypes}
          /\ schema = NotBuilt
    /\ type_name = None
    /\ anthropic = NotRun
    /\ openapi = NotRun
    /\ wit = NotRun
    /\ tool = NotRun

\* The trees that differ from s by the exchange of two neighbouring entries
\* in the iteration order of one HashMap of s.
SwapAt(m, i) ==
    [j \in 1..Len(m) |-> IF j = i THEN m[i + 1] ELSE IF j = i + 1 THEN m[i] ELSE m[j]]

RECURSIVE Rehashes(_)
RehashesOfEntries(m) ==
    {SwapAt(m, i) : i \in 1..(Len(m) - 1)}
    \cup UNION {{[m EXCEPT ![i].value = c] : c \in Rehashes(m[i].value)} :
                   i \in 1..Len(m)}

RehashesOfSeq(fs) ==
    UNION {{[fs EXCEPT ![i] = c] : c \in Rehashes(fs[i])} : i \in 1..Len(fs)}

RehashesOfCases(cs) ==
    UNION {IF is_some(cs[i].data)
           THEN {[cs EXCEPT ![i].data = Some(c)] : c \in Rehashes(unwrap(cs[i].data))}
           ELSE {} : i \in 1..Len(cs)}

Rehashes(s) ==
    CASE s.kind = "Object" ->
           {[s EXCEPT !.properties = m] : m \in RehashesOfEntries(s.properties)}
      [] s.kind = "TaggedUnion" ->
           {[s EXCEPT !.data_fields = m] : m \in RehashesOfEntries(s.data_fields)}
      [] s.kind \in {"Array", "Set"} ->
           {[s EXCEPT !.items = c] : c \in Rehashes(s.items)}
      [] s.kind = "Map" ->
           {[s EXCEPT !.key = c] : c \in Rehashes(s.key)}
           \cup {[s EXCEPT !.value = c] : c \in Rehashes(s.value)}
      [] s.kind = "Result" ->
           {[s EXCEPT !.ok = c] : c \in Rehashes(s.ok)}
           \cup {[s EXCEPT !.err = c] : c \in Rehashes(s.err)}
      [] s.kind = "Tuple" ->
           {[s EXCEPT !.fields = fs] : fs \in RehashesOfSeq(s.fields)}
      [] s.kind = "Variant" ->
           {[s EXCEPT !.cases = cs] : cs \in RehashesOfCases(s.cases)}
      [] OTHER -> {}

(***************************************************************************)
(* Operations                                                              *)
(***************************************************************************)

\* T::schema() and T::type_name() of a built-in type T.
BuiltinSchema ==
    /\ input # NoInput
    /\ input.data = "Type"
    /\ schema = NotBuilt
    /\ schema' = Schema_schema(input.ty)
    /\ type_name' = None
    /\ UNCHANGED <<input, anthropic, openapi, wit, tool>>

\* #[derive(Schema)] on the native definition, then T::schema().
Derive ==
    /\ input # NoInput
    /\ input.data # "Type"
    /\ schema = NotBuilt
    /\ schema' = derive_schema(input)
    /\ type_name' = IF schema'.kind = "compile_error" THEN None ELSE Some(input.ident)
    /\ UNCHANGED <<input, anthropic, openapi, wit, tool>>

\* The same type built again: its HashMaps hold the same entries and iterate
\* in another order.
Rehash ==
    /\ Built
    /\ \E s \in Rehashes(schema) : schema' = s
    /\ UNCHANGED <<input, type_name, anthropic, openapi, wit, tool>>

ToAnthropicSchema ==
    /\ Built
    /\ anthropic' = to_anthropic_schema(schema)
    /\ UNCHANGED <<input, schema, type_name, openapi, wit, tool>>

ToOpenapiSchema ==
    /\ Built
    /\ openapi' = schema_type_to_openapi(schema)
    /\ UNCHANGED <<input, schema, type_name, anthropic, wit, tool>>

ToWitType ==
    /\ Built
    /\ wit' = Text(schema_type_to_wit(schema, type_name))
    /\ UNCHANGED <<input, schema, type_name, anthropic, openapi, tool>>

\* The name and description arguments of create_tool_schema.
ToolArguments ==
    {<<n_click, d_identifier>>, <<n_fill, d_oneOf>>}

CreateToolSchema ==
    /\ Built
    /\ \E arguments \in ToolArguments :
          tool' = Call(arguments[1], arguments[2],
                       create_tool_schema(arguments[1], arguments[2], schema))
    /\ UNCHANGED <<input, schema, type_name, anthropic, openapi, wit>>

Next ==
    \/ BuiltinSchema
    \/ Derive
    \/ Rehash
    \/ ToAnthropicSchema
    \/ ToOpenapiSchema
    \/ ToWitType
    \/ CreateToolSchema

Spec ==
    Init /\ [][Next]_vars


(***************************************************************************)
(* Names: the identifiers that reach to_kebab_case                         *)
(***************************************************************************)

MaxName ==
    3

\* A lowercase letter, an uppercase letter, an underscore, a separator and
\* a digit.
NameAlphabet ==
    {"a", "B", "_", "-", "1"}

Identifiers ==
    (SeqsUpTo(NameAlphabet, MaxName) \ {<<>>})
    \cup {n_snake_case, n_PascalCase, n_camelCase, n_already_kebab}

\* The trees that carry the name s: as a reference, an enum variant, a
\* record field and the cases of a variant.
Named(s) ==
    {TypeKind_Ref(s, None),
     TypeKind_Enum(<<s>>, None),
     TypeKind_Object(<<Entry(s, TypeKind_String(None))>>, <<s>>, None),
     TypeKind_Variant(<<VariantCase(s, None, None),
                        VariantCase(s, Some(TypeKind_String(None)), None)>>, None)}

\* A tree with a name in it under a type name, built by hand or derived from
\* struct s { s: String }.
InitNames ==
    /\ \E s \in Identifiers :
          \/ /\ input = NoInput
             /\ schema \in Named(s)
             /\ type_name \in {None, Some(s)}
          \/ /\ input = DeriveInput("Struct", s, NoDocs,
                                    Fields("Named",
                                           <<Field(s, Type("String", <<>>), NoDocs, FALSE)>>),
                                    <<>>)
             /\ schema = NotBuilt
             /\ type_name = None
    /\ anthropic = NotRun
    /\ openapi = NotRun
    /\ wit = NotRun
    /\ tool = NotRun

NextNames ==
    \/ Derive
    \/ ToWitType

SpecNames ==
    InitNames /\ [][NextNames]_vars

(***************************************************************************)
(* Descriptions: the texts that reach the documentation comments           *)
(***************************************************************************)

MaxLines ==
    2

\* A line without surrounding whitespace, one with leading and one with
\* trailing whitespace.
DescriptionLines ==
    {<<"a">>, <<" ", "a">>, <<"b", " ">>}

\* The values of the doc attributes of an item, one line each.
DocAttributes ==
    SeqsUpTo(DescriptionLines, MaxLines)

DescriptionTexts ==
    {None} \cup {Some(join(ls, w_newline)) : ls \in DocAttributes \ {<<>>}}

\* The declarations that carry the description d on the type and the
\* description e on a member: a record, a variant with a unit case and one
\* with a data case, and an enum.
Described(d, e) ==
    {TypeKind_Object(<<Entry(n_name, TypeKind_String(e))>>, <<n_name>>, d),
     TypeKind_Variant(<<VariantCase(n_click, None, e)>>, d),
     TypeKind_Variant(<<VariantCase(n_fill, Some(TypeKind_String(None)), e)>>, d),
     TypeKind_Enum(<<n_click>>, d)}

\* A described declaration, built by hand or derived from
\* struct Person { name: String } with doc attributes.
InitDescriptions ==
    /\ \/ /\ input = NoInput
          /\ \E d \in DescriptionTexts, e \in DescriptionTexts :
                schema \in Described(d, e)
          /\ type_name \in {None, Some(n_Person)}
       \/ /\ \E a \in DocAttributes, b \in DocAttributes :
                input = DeriveInput("Struct", n_Person, a,
                                    Fields("Named",
                                           <<Field(n_name, Type("String", <<>>), b, FALSE)>>),
                                    <<>>)
          /\ schema = NotBuilt
          /\ type_name = None
    /\ anthropic = NotRun
    /\ openapi = NotRun
    /\ wit = NotRun
    /\ tool = NotRun

NextDescriptions ==
    \/ Derive
    \/ ToWitType

SpecDescriptions ==
    InitDescriptions /\ [][NextDescriptions]_vars

(***************************************************************************)
(* Members: two names declared side by side                                *)
(***************************************************************************)

MaxMemberName ==
    3

MemberAlphabet ==
    {"a", "A", "_"}

MemberIdentifiers ==
    SeqsUpTo(MemberAlphabet, MaxMemberName) \ {<<>>}

\* The declarations with the two members s and t: a record, a variant and
\* an enum.
Members(s, t) ==
    {TypeKind_Object(<<Entry(s, TypeKind_String(None)), Entry(t, TypeKind_String(None))>>,
                     <<s, t>>, None),
     TypeKind_Variant(<<VariantCase(s, None, None), VariantCase(t, None, None)>>, None),
     TypeKind_Enum(<<s, t>>, None)}

\* A hand-built declaration with two different member names, in either
\* order.
InitMembers ==
    /\ input = NoInput
    /\ \E s \in MemberIdentifiers, t \in MemberIdentifiers :
          /\ s # t
          /\ schema \in Members(s, t)
    /\ type_name \in {None, Some(n_Person)}
    /\ anthropic = NotRun
    /\ openapi = NotRun
    /\ wit = NotRun
    /\ tool = NotRun

NextMembers ==
    \/ Rehash
    \/ ToWitType

SpecMembers ==
    InitMembers /\ [][NextMembers]_vars
(***************************************************************************)
(* serde_json::to_string, as the tests apply it to a projector's output    *)
(***************************************************************************)

\* The JSON escapes of the characters of the model.
escape(s) ==
    Concat([i \in 1..Len(s) |->
              CASE s[i] = "\"" -> <<"\\", "\"">>
                [] s[i] = "\\" -> <<"\\", "\\">>
                [] s[i] = "\n" -> <<"\\", "n">>
                [] OTHER -> <<s[i]>>])

Digits ==
    <<"0", "1", "2", "3", "4", "5", "6", "7", "8", "9">>

RECURSIVE itoa(_)
itoa(n) ==
    IF n < 10 THEN <<Digits[n + 1]>> ELSE itoa(n \div 10) \o <<Digits[(n % 10) + 1]>>

quoted(s) ==
    <<"\"">> \o escape(s) \o <<"\"">>

RECURSIVE to_string(_)
to_string(j) ==
    CASE j.t = "String" -> quoted(j.s)
      [] j.t = "Number" -> itoa(j.n)
      [] j.t = "Bool" -> IF j.b THEN <<"t", "r", "u", "e">> ELSE <<"f", "a", "l", "s", "e">>
      [] j.t = "Array" ->
           <<"[">> \o join([i \in 1..Len(j.a) |-> to_string(j.a[i])], <<",">>) \o <<"]">>
      [] j.t = "Object" ->
           LET ks == SortedKeys(DOMAIN j.m)
           IN <<"{">>
              \o join([i \in 1..Len(ks) |-> quoted(ks[i]) \o <<":">> \o to_string(j.m[ks[i]])],
                      <<",">>)
              \o <<"}">>

(***************************************************************************)
(* Reading a projector's output                                            *)
(***************************************************************************)

\* Some name or description of the tree contains pat.
RECURSIVE Mentions(_, _)
MentionsAny(ss, pat) ==
    \E i \in 1..Len(ss) : contains(ss[i], pat)

MentionsEntries(m, pat) ==
    \E i \in 1..Len(m) : contains(m[i].key, pat) \/ Mentions(m[i].value, pat)

Mentions(s, pat) ==
    \/ is_some(s.description) /\ contains(unwrap(s.description), pat)
    \/ CASE s.kind = "Object" ->
              MentionsEntries(s.properties, pat) \/ MentionsAny(s.required, pat)
         [] s.kind \in {"Array", "Set"} -> Mentions(s.items, pat)
         [] s.kind = "Map" -> Mentions(s.key, pat) \/ Mentions(s.value, pat)
         [] s.kind = "Enum" -> MentionsAny(s.variants, pat)
         [] s.kind = "TaggedUnion" ->
              \/ contains(s.tag_field, pat)
              \/ MentionsAny(s.tag_variants, pat)
              \/ MentionsEntries(s.data_fields, pat)
         [] s.kind = "Variant" ->
              \E i \in 1..Len(s.cases) :
                  \/ contains(s.cases[i].name, pat)
                  \/ is_some(s.cases[i].description)
                       /\ contains(unwrap(s.cases[i].description), pat)
                  \/ is_some(s.cases[i].data) /\ Mentions(unwrap(s.cases[i].data), pat)
         [] s.kind = "Result" -> Mentions(s.ok, pat) \/ Mentions(s.err, pat)
         [] s.kind = "Tuple" -> \E i \in 1..Len(s.fields) : Mentions(s.fields[i], pat)
         [] s.kind = "Ref" -> contains(s.name, pat)
         [] OTHER -> FALSE

\* Every node of the JSON value was produced by a match arm.
RECURSIVE Defined(_)
Defined(j) ==
    CASE j.t = "NoArm" -> FALSE
      [] j.t = "Array" -> \A i \in 1..Len(j.a) : Defined(j.a[i])
      [] j.t = "Object" -> \A k \in DOMAIN j.m : Defined(j.m[k])
      [] OTHER -> TRUE

\* Every piece of the text was produced by a match arm.
DefinedText(text) ==
    \A i \in 1..Len(text) : text[i] # NoArmText[1]

\* A line of interface text that is a documentation comment.
IsComment(line) ==
    starts_with(trim_start(line), <<"/", "/", "/">>)

Count(line, ch) ==
    Cardinality({i \in 1..Len(line) : line[i] = ch})

\* The lines of the text that open a member (a field or a case) of the
\* outermost declaration: the lines met at brace depth 1 that are neither a
\* comment nor the closing brace.
RECURSIVE MemberLinesFrom(_, _, _)
MemberLinesFrom(ls, i, depth) ==
    IF i > Len(ls) THEN <<>>
    ELSE IF IsComment(ls[i]) THEN MemberLinesFrom(ls, i + 1, depth)
    ELSE (IF depth = 1 /\ ~starts_with(ls[i], <<"}">>) THEN <<ls[i]>> ELSE <<>>)
         \o MemberLinesFrom(ls, i + 1, depth + Count(ls[i], "{") - Count(ls[i], "}"))

MemberLines(text) ==
    MemberLinesFrom(lines(text), 1, 0)

\* The first line of the text that is not a comment: the declaration header.
HeaderLine(text) ==
    LET ls == lines(text)
        code == {i \in 1..Len(ls) : ~IsComment(ls[i])}
    IN IF code = {} THEN <<>> ELSE ls[CHOOSE i \in code : \A j \in code : i <= j]

\* The identifier a member line declares: the text between the indentation
\* and the first of ":", "(" and ",".
MemberName(line) ==
    LET body == trim_start(line)
        stops == {i \in 1..Len(body) : body[i] \in {":", "(", ","}}
    IN IF stops = {} THEN body
       ELSE SubSeq(body, 1, (CHOOSE i \in stops : \A j \in stops : i <= j) - 1)

MemberNames(text) ==
    LET ms == MemberLines(text)
    IN [i \in 1..Len(ms) |-> MemberName(ms[i])]

\* The position of the first occurrence of pat in text, 0 when there is none.
find(text, pat) ==
    LET at == {i \in 1..(Len(text) - Len(pat) + 1) :
                  \A j \in 1..Len(pat) : text[i + j - 1] = pat[j]}
    IN IF at = {} THEN 0 ELSE CHOOSE i \in at : \A j \in at : i <= j

\* Reading a JSON object: the value under key k.
get(j, k) ==
    j.m[k]

(***************************************************************************)
(* Properties                                                              *)
(***************************************************************************)

\* C1 (as stated): for every input, whatever its field names, variant names
\* and descriptions, the serialized output of to_anthropic_schema never
\* contains the substring oneOf.
C1_NeverContainsOneOf ==
    anthropic # NotRun => ~contains(to_string(anthropic), k_oneOf)

\* C1 (amended): for every input none of whose names and descriptions
\* contains oneOf, the serialized output of to_anthropic_schema never
\* contains the substring oneOf.
C1_NoOneOfUnlessInInput ==
    (anthropic # NotRun /\ ~Mentions(schema, k_oneOf))
        => ~contains(to_string(anthropic), k_oneOf)

\* A sum type without oneOf in its names has been projected.
C1_Witness ==
    /\ anthropic # NotRun
    /\ schema.kind \in {"TaggedUnion", "Variant"}
    /\ ~Mentions(schema, k_oneOf)
    /\ (schema.kind = "Variant" => Len(schema.cases) = 2)

\* C2: two builds of the same record type whose property maps iterate in
\* different orders render to byte-identical interface text, at every
\* nesting level: once the text exists, rendering the rebuilt tree again
\* yields the same text.
C2_TextIndependentOfMapOrder ==
    [][(wit # NotRun /\ wit' # NotRun) => wit' = wit]_vars

\* Out of ascending key order.
Unsorted(m) ==
    \E i \in 1..(Len(m) - 1) : StrLess(m[i + 1].key, m[i].key)

\* A record has been rendered whose own map and whose nested record's map
\* both iterate out of name order.
C2_Witness ==
    /\ wit # NotRun
    /\ schema.kind = "Object"
    /\ Unsorted(schema.properties)
    /\ \E i \in 1..Len(schema.properties) :
          /\ schema.properties[i].value.kind = "Object"
          /\ Unsorted(schema.properties[i].value.properties)

\* The key set of the properties object of a JSON schema object.
PropertyNames(j) ==
    DOMAIN get(j, k_properties).m

\* A JSON projector reports exactly the fields F and the required list R.
ReportsAll(j, F, R) ==
    /\ is_object(j)
    /\ contains_key(j, k_properties)
    /\ is_object(get(j, k_properties))
    /\ PropertyNames(j) = F
    /\ contains_key(j, k_required)
    /\ get(j, k_required) = JStrings(R)

\* The interface text is a record that declares one field per name of F.
DeclaresAll(text, F) ==
    LET names == MemberNames(text)
    IN /\ starts_with(HeaderLine(text), <<"r", "e", "c", "o", "r", "d", " ">>)
       /\ Len(names) = Cardinality(F)
       /\ \A f \in F : SeqContains(names, to_kebab_case(f))
       /\ \A i \in 1..Len(names) : \E f \in F : names[i] = to_kebab_case(f)

C4_Total ==
    /\ anthropic # NotRun => Defined(anthropic)
    /\ openapi # NotRun => Defined(openapi)
    /\ wit # NotRun => DefinedText(wit.text)

\* The oneOf array of the Union Projector's output.
Branches(j) ==
    get(j, k_oneOf).a

\* {type: "string", const: name}
UnitBranch(name) ==
    JObject(insert(insert(MapNew, k_type, JString(v_string)), k_const, JString(name)))

\* {type: "object", properties: {type: tag, data: data}, required: ["type", "data"]}
DataBranch(tag, data) ==
    JObject(insert(insert(insert(MapNew, k_type, JString(v_object)),
                          k_properties,
                          JObject(insert(insert(MapNew, k_type, tag), k_data, data))),
                   k_required, JStrings(<<k_type, k_data>>)))

\* The Union output is a oneOf with one branch per case, each as expected.
BranchPerCase(expected(_)) ==
    /\ contains_key(openapi, k_oneOf)
    /\ Len(Branches(openapi)) = Len(schema.cases)
    /\ \A i \in 1..Len(schema.cases) : Branches(openapi)[i] = expected(schema.cases[i])

BranchName(branch) ==
    IF contains_key(branch, k_const) THEN get(branch, k_const).s
    ELSE get(get(get(branch, k_properties), k_type), k_const).s

\* C6: for a Variant with case names c1..cn, the Union Projector's oneOf has
\* exactly n branches, the i-th for ci, and the interface text is a variant
\* declaration that lists exactly n case lines, in the order c1..cn; nothing
\* is sorted, merged or dropped.
C6_CasesInOrder ==
    schema.kind = "Variant" =>
        LET names == [i \in 1..Len(schema.cases) |-> schema.cases[i].name]
        IN /\ openapi # NotRun =>
                /\ contains_key(openapi, k_oneOf)
                /\ Len(Branches(openapi)) = Len(names)
                /\ \A i \in 1..Len(names) : BranchName(Branches(openapi)[i]) = names[i]
           /\ wit # NotRun =>
                /\ starts_with(HeaderLine(wit.text),
                               <<"v", "a", "r", "i", "a", "n", "t", " ">>)
                /\ MemberNames(wit.text)
                     = [i \in 1..Len(names) |-> to_kebab_case(names[i])]

\* Both projectors have run on a variant whose case names are not in name
\* order, or repeat.
C6_Witness ==
    /\ schema.kind = "Variant"
    /\ Len(schema.cases) = 2
    /\ ~StrLess(schema.cases[1].name, schema.cases[2].name)
    /\ is_some(schema.cases[1].data)
    /\ openapi # NotRun
    /\ wit # NotRun

\* The record Person with the required fields name: String and age: U32.
IsPerson ==
    /\ schema.kind = "Object"
    /\ type_name = Some(n_Person)
    /\ Keys(schema.properties) = {n_name, n_age}
    /\ Get(schema.properties, n_name) = TypeKind_String(None)
    /\ Get(schema.properties, n_age) = TypeKind_Integer("U32", None)
    /\ SeqContains(schema.required, n_name)
    /\ SeqContains(schema.required, n_age)

RecordPersonLine ==
    <<"r", "e", "c", "o", "r", "d", " ", "p", "e", "r", "s", "o", "n", " ", "{">>

NameLine ==
    <<"n", "a", "m", "e", ":", " ", "s", "t", "r", "i", "n", "g", ",">>

AgeLine ==
    <<"a", "g", "e", ":", " ", "u", "3", "2", ",">>

\* C7 (as stated): for the record Person, the interface text is a record
\* declaration named person in which the line `name: string,` comes before
\* the line `age: u32,`.
C7_NameBeforeAge ==
    (IsPerson /\ wit # NotRun) =>
        /\ contains(wit.text, RecordPersonLine)
        /\ find(wit.text, NameLine) > 0
        /\ find(wit.text, NameLine) < find(wit.text, AgeLine)

\* C7 (amended): for the record Person, the interface text is a record
\* declaration named person in which the line `age: u32,` comes before the
\* line `name: string,` (ascending field name order).
C7_AgeBeforeName ==
    (IsPerson /\ wit # NotRun) =>
        /\ contains(wit.text, RecordPersonLine)
        /\ find(wit.text, AgeLine) > 0
        /\ find(wit.text, AgeLine) < find(wit.text, NameLine)

\* Person, derived from its declaration with name declared first, has been
\* rendered.
C7_Witness ==
    /\ IsPerson
    /\ wit # NotRun
    /\ input # NoInput
    /\ input.data = "Struct"
    /\ input.fields.named[1].ident = n_name

\* A native enum whose variants are unit or carry named fields, at least one
\* of them carrying fields.
IsDataEnum ==
    /\ input # NoInput
    /\ input.data = "Enum"
    /\ \A i \in 1..Len(input.variants) :
          input.variants[i].fields.style \in {"Unit", "Named"}
    /\ \E i \in 1..Len(input.variants) : input.variants[i].fields.style = "Named"

\* C8: for a native enum with a data-carrying variant, the derived schema
\* renders as a `variant <name> {` declaration with `name,` per unit variant
\* and `name(record ...` per data variant, and projects through the Union
\* Projector to a oneOf with one branch per variant, every branch an object
\* with both a type and a data property.
C8_DerivedEnumIsVariant ==
    (IsDataEnum /\ Built) =>
        /\ wit # NotRun =>
             /\ starts_with(HeaderLine(wit.text),
                            <<"v", "a", "r", "i", "a", "n", "t", " ">>
                                \o to_kebab_case(input.ident) \o <<" ", "{">>)
             /\ Len(MemberLines(wit.text)) = Len(input.variants)
             /\ \A i \in 1..Len(input.variants) :
                   LET name == to_kebab_case(str_to_lowercase(input.variants[i].ident))
                       line == trim_start(MemberLines(wit.text)[i])
                   IN IF input.variants[i].fields.style = "Unit"
                      THEN line = name \o <<",">>
                      ELSE starts_with(line,
                                       name \o <<"(", "r", "e", "c", "o", "r", "d">>)
        /\ openapi # NotRun =>
             /\ contains_key(openapi, k_oneOf)
             /\ Len(Branches(openapi)) = Len(input.variants)
             /\ \A i \in 1..Len(Branches(openapi)) :
                   LET branch == Branches(openapi)[i]
                   IN /\ get(branch, k_type) = JString(v_object)
                      /\ contains_key(branch, k_properties)
                      /\ contains_key(get(branch, k_properties), k_type)
                      /\ contains_key(get(branch, k_properties), k_data)

\* C9: for a TaggedUnion, the Discriminator Projector returns a flat object
\* of type "object" whose properties map tag_field to {type: "string",
\* enum: tag_variants} and hold one sibling property per data_fields entry
\* with that entry's projection, and whose required is exactly [tag_field].
C9_FlatTaggedUnion ==
    (schema.kind = "TaggedUnion" /\ anthropic # NotRun) =>
        /\ get(anthropic, k_type) = JString(v_object)
        /\ contains_key(get(anthropic, k_properties), schema.tag_field)
        /\ get(get(anthropic, k_properties), schema.tag_field)
             = JObject(insert(insert(MapNew, k_type, JString(v_string)),
                              k_enum, JStrings(schema.tag_variants)))
        /\ \A k \in Keys(schema.data_fields) :
              contains_key(get(anthropic, k_properties), k)
        /\ \A k \in Keys(schema.data_fields) \ {schema.tag_field} :
              get(get(anthropic, k_properties), k)
                = to_anthropic_schema(Get(schema.data_fields, k))
        /\ PropertyNames(anthropic) = Keys(schema.data_fields) \cup {schema.tag_field}
        /\ get(anthropic, k_required) = JStrings(<<schema.tag_field>>)

\* C10: the Discriminator Projector's output for a node that carries a
\* description d has `description` equal to d, and has no `description` when
\* the node carries none (unless the kind's rule adds one); a Ref yields an
\* object with the single key $ref, description or not.
C10_DescriptionCopied ==
    anthropic # NotRun =>
        IF schema.kind = "Ref"
        THEN /\ is_object(anthropic)
             /\ DOMAIN anthropic.m = {k_ref}
        ELSE IF is_some(schema.description)
        THEN /\ contains_key(anthropic, k_description)
             /\ get(anthropic, k_description) = JString(unwrap(schema.description))
        ELSE schema.kind # "Result" => ~contains_key(anthropic, k_description)


\* The keys of a JSON object other than description.
KeysBesidesDescription(j) ==
    DOMAIN j.m \ {k_description}

\* {type: "array", maxItems: 0} for no items, and {type: "array",
\* prefixItems: items, minItems: n, maxItems: n} for n >= 1 items.
IsFixedArray(j, items) ==
    /\ is_object(j)
    /\ get(j, k_type) = JString(v_array)
    /\ IF items = <<>>
       THEN /\ KeysBesidesDescription(j) = {k_type, k_maxItems}
            /\ get(j, k_maxItems) = JNumber(0)
       ELSE /\ KeysBesidesDescription(j) = {k_type, k_prefixItems, k_minItems, k_maxItems}
            /\ get(j, k_prefixItems) = JArray(items)
            /\ Len(get(j, k_prefixItems).a) = Len(items)
            /\ get(j, k_minItems) = JNumber(Len(items))
            /\ get(j, k_maxItems) = JNumber(Len(items))

\* unit for no types, tuple<t1, ..., tn> for n >= 1 types.
TupleText(types) ==
    IF types = <<>> THEN <<"u", "n", "i", "t">>
    ELSE <<"t", "u", "p", "l", "e", "<">> \o join(types, <<",", " ">>) \o <<">">>

\* C11: for an empty Tuple both JSON projectors yield {type: "array",
\* maxItems: 0} without prefixItems and minItems, and the interface text is
\* unit; for a Tuple of n >= 1 fields both yield {type: "array", prefixItems:
\* the projection of each field in order, minItems: n, maxItems: n}, and the
\* interface text is tuple<t1, ..., tn> in field order.
C11_TupleIsFixedArray ==
    schema.kind = "Tuple" =>
        LET n == Len(schema.fields)
        IN /\ anthropic # NotRun =>
                IsFixedArray(anthropic,
                             [i \in 1..n |-> to_anthropic_schema(schema.fields[i])])
           /\ openapi # NotRun =>
                IsFixedArray(openapi,
                             [i \in 1..n |-> schema_type_to_openapi(schema.fields[i])])
           /\ wit # NotRun =>
                wit.text = TupleText([i \in 1..n |->
                                         schema_type_to_wit(schema.fields[i], None)])

\* All three projectors have run on a Tuple of two different fields.
C11_Witness ==
    /\ schema.kind = "Tuple"
    /\ Len(schema.fields) = 2
    /\ schema.fields[1] # schema.fields[2]
    /\ anthropic # NotRun
    /\ openapi # NotRun
    /\ wit # NotRun


\* The native definition has a shape without a SchemaType: a tuple struct, a
\* union, or an enum with a tuple variant.
IsUnrepresentable ==
    /\ input # NoInput
    /\ \/ input.data = "Struct" /\ input.fields.style = "Unnamed"
       \/ input.data = "Union"
       \/ /\ input.data = "Enum"
          /\ \E i \in 1..Len(input.variants) :
                input.variants[i].fields.style = "Unnamed"

\* C12: deriving a schema for a tuple struct, for a union or for an enum
\* with a tuple variant fails and never yields a SchemaType; in particular
\* never one that leaves the payload out.
C12_FailsOnUnrepresentable ==
    (IsUnrepresentable /\ schema # NotBuilt) => schema.kind = "compile_error"

\* The fields of the native record that are not marked #[schema(skip)].
KeptFields ==
    SelectSeq(input.fields.named, LAMBDA field : ~field.skip)

\* C13: for a native record with named fields, the derived Object has
\* properties keyed by exactly the fields not marked #[schema(skip)], and
\* required holds, in declaration order, exactly the kept fields whose
\* declared type is not Option; a field of type Option<T> is a property with
\* the schema of T and is not required.
C13_PropertiesAndRequiredOfFields ==
    (input # NoInput /\ input.data = "Struct" /\ input.fields.style = "Named"
        /\ schema # NotBuilt) =>
        LET kept == KeptFields
            mandatory == SelectSeq(kept, LAMBDA field : field.ty.path # "Option")
        IN /\ schema.kind = "Object"
           /\ Keys(schema.properties) = {kept[i].ident : i \in 1..Len(kept)}
           /\ Len(schema.properties) = Len(kept)
           /\ schema.required = [i \in 1..Len(mandatory) |-> mandatory[i].ident]
           /\ \A i \in 1..Len(kept) :
                 LET property == Get(schema.properties, kept[i].ident)
                     of_type == Schema_schema(IF kept[i].ty.path = "Option"
                                              THEN kept[i].ty.args[1]
                                              ELSE kept[i].ty)
                 IN /\ property.kind = of_type.kind
                    /\ [property EXCEPT !.description = None]
                         = [of_type EXCEPT !.description = None]

\* A record with a skipped field and an Option field has been derived.
C13_Witness ==
    /\ input # NoInput
    /\ input.data = "Struct"
    /\ input.fields.style = "Named"
    /\ Len(input.fields.named) = 2
    /\ input.fields.named[1].skip
    /\ input.fields.named[2].ty.path = "Option"
    /\ schema # NotBuilt

\* The orders in which a HashMap with the entries m may iterate.
IterationOrders(m) ==
    {[i \in 1..Len(m) |-> m[p[i]]] : p \in Permutations(1..Len(m))}

\* The properties built by the Variant rule of to_anthropic_schema do not
\* depend on the order in which its all_fields map iterates.
AllFieldsOrderIrrelevant ==
    schema.kind = "Variant" =>
        LET all_fields == collect_all_fields(<<>>, schema.cases)
            tag == insert(MapNew, k_type, JString(v_string))
        IN \A order \in IterationOrders(all_fields) :
              anthropic_insert_each(tag, order) = anthropic_insert_each(tag, all_fields)

\* C14: every projector is a deterministic function of the tree: a second
\* invocation returns an output equal to the first, whatever the iteration
\* order of the tree's maps and of the map used inside the Variant rule of
\* to_anthropic_schema, and a projector leaves the tree unchanged.
C14_Deterministic ==
    [][/\ (anthropic # NotRun /\ anthropic' # NotRun) => anthropic' = anthropic
       /\ (openapi # NotRun /\ openapi' # NotRun) => openapi' = openapi
       /\ (wit # NotRun /\ wit' # NotRun) => wit' = wit
       /\ (anthropic' # anthropic \/ openapi' # openapi \/ wit' # wit)
             => schema' = schema
       /\ AllFieldsOrderIrrelevant]_vars

\* All three projectors have run on a record, and the record's map iterates
\* out of the order it was built in.
C14_Witness ==
    /\ schema.kind \in {"Object", "TaggedUnion"}
    /\ Unsorted(IF schema.kind = "Object" THEN schema.properties
                ELSE schema.data_fields)
    /\ input = NoInput
    /\ anthropic # NotRun
    /\ openapi # NotRun
    /\ wit # NotRun

\* The line of a record field: four spaces, the name, its type, a comma.
FieldLine(name, type) ==
    <<" ", " ", " ", " ">> \o to_kebab_case(name) \o <<":", " ">> \o type
        \o <<",", "\n">>

OptionOf(type) ==
    <<"o", "p", "t", "i", "o", "n", "<">> \o type \o <<">">>

\* The native type with every Option<T> in it replaced by T.
RECURSIVE StripOption(_)
StripOption(ty) ==
    IF ty.path = "Option" THEN StripOption(ty.args[1])
    ELSE Type(ty.path, [i \in 1..Len(ty.args) |-> StripOption(ty.args[i])])

HasOption(ty) ==
    StripOption(ty) # ty

\* C15: in the interface text a record field has the type option<T> if and
\* only if its name is absent from the required list, and the bare type T
\* otherwise, T being the rendering of the field's schema; an optional value
\* that is not a record field renders as the wrapped type: Option<String>
\* renders string.
C15_OptionIffNotRequired ==
    wit # NotRun =>
        /\ schema.kind = "Object" =>
              \A i \in 1..Len(schema.properties) :
                 LET name == schema.properties[i].key
                     T == schema_type_to_wit(schema.properties[i].value, None)
                     bare == FieldLine(name, T)
                     optional == FieldLine(name, OptionOf(T))
                 IN IF SeqContains(schema.required, name)
                    THEN contains(wit.text, bare) /\ ~contains(wit.text, optional)
                    ELSE contains(wit.text, optional) /\ ~contains(wit.text, bare)
        /\ (input # NoInput /\ input.data = "Type") =>
              /\ wit.text = schema_type_to_wit(Schema_schema(StripOption(input.ty)), None)
              /\ ~contains(wit.text, OptionOf(<<>>))
              /\ input.ty = Type("Option", <<Type("String", <<>>)>>)
                    => wit.text = <<"s", "t", "r", "i", "n", "g">>

\* A record derived from a String field and an Option field has been
\* rendered.
C15_Witness ==
    /\ wit # NotRun
    /\ input # NoInput
    /\ input.data = "Struct"
    /\ schema.kind = "Object"
    /\ Len(schema.properties) = 2
    /\ Len(schema.required) = 1
    /\ \E i \in 1..2 : input.fields.named[i].ty.path = "Option"

\* The canonical form of a name, character by character: a separator and
\* the lowercase letter for an uppercase letter that is not the first
\* character, the lowercase letter for a leading one, a separator for an
\* underscore, the character itself otherwise.
Canonical(s) ==
    Concat([i \in 1..Len(s) |->
              IF is_uppercase(s[i])
              THEN (IF i > 1 THEN <<"-">> ELSE <<>>) \o <<to_lowercase(s[i])>>
              ELSE IF s[i] = "_" THEN <<"-">>
              ELSE <<s[i]>>])

\* The names of the tree: of the reference, the variants, the fields or the
\* cases.
DeclaredNames ==
    CASE schema.kind = "Ref" -> <<schema.name>>
      [] schema.kind = "Enum" -> schema.variants
      [] schema.kind = "Object" ->
           [i \in 1..Len(schema.properties) |-> schema.properties[i].key]
      [] schema.kind = "Variant" ->
           [i \in 1..Len(schema.cases) |-> schema.cases[i].name]
      [] OTHER -> <<>>

\* C16: to_kebab_case puts a separator before each uppercase letter that is
\* not the first character, turns each underscore into a separator,
\* lowercases every letter and keeps every other character: snake_case,
\* PascalCase, camelCase and already-kebab give snake-case, pascal-case,
\* camel-case and already-kebab, and no result holds an uppercase letter or
\* an underscore.  The interface text declares the type name, the field
\* names and the case names in this form.
C16_NamesAreCanonical ==
    /\ \A i \in 1..Len(DeclaredNames) :
          LET s == DeclaredNames[i]
          IN /\ to_kebab_case(s) = Canonical(s)
             /\ \A j \in 1..Len(to_kebab_case(s)) :
                   ~is_uppercase(to_kebab_case(s)[j]) /\ to_kebab_case(s)[j] # "_"
    /\ to_kebab_case(n_snake_case) = <<"s", "n", "a", "k", "e", "-", "c", "a", "s", "e">>
    /\ to_kebab_case(n_PascalCase)
         = <<"p", "a", "s", "c", "a", "l", "-", "c", "a", "s", "e">>
    /\ to_kebab_case(n_camelCase) = <<"c", "a", "m", "e", "l", "-", "c", "a", "s", "e">>
    /\ to_kebab_case(n_already_kebab) = n_already_kebab
    /\ wit # NotRun =>
          IF schema.kind = "Ref" THEN wit.text = Canonical(schema.name)
          ELSE /\ MemberNames(wit.text)
                    = [i \in 1..Len(DeclaredNames) |-> Canonical(DeclaredNames[i])]
               /\ is_some(type_name) =>
                     \E keyword \in {<<"r", "e", "c", "o", "r", "d">>,
                                     <<"e", "n", "u", "m">>,
                                     <<"v", "a", "r", "i", "a", "n", "t">>} :
                        HeaderLine(wit.text)
                          = keyword \o <<" ">> \o Canonical(unwrap(type_name))
                              \o <<" ", "{">>

\* A record whose type name and field name hold an inner uppercase letter
\* and an underscore has been rendered.
C16_Witness ==
    /\ wit # NotRun
    /\ schema.kind = "Object"
    /\ type_name = Some(<<"a", "B", "_">>)
    /\ DeclaredNames = <<<<"a", "B", "_">>>>

\* C17: the built-in types have fixed schemas, for every element type:
\* HashMap gives Map{ordered: false} and BTreeMap Map{ordered: true}, HashSet
\* gives Set{ordered: false} and BTreeSet Set{ordered: true}, Vec and
\* LinkedList give Array, Result gives Result{ok, err}, the tuples of arity 1
\* to 4 give Tuple with the element schemas in order, each with key, value
\* and items equal to the element type's own schema; and the schema of
\* Option<T> is the schema of T, kind and description.
C17_FixedMappings ==
    (input # NoInput /\ input.data = "Type" /\ schema # NotBuilt) =>
        LET path == input.ty.path
            of(i) == Schema_schema(input.ty.args[i])
        IN /\ path \in {"HashMap", "BTreeMap"} =>
                /\ schema.kind = "Map"
                /\ schema.ordered = (path = "BTreeMap")
                /\ schema.key = of(1)
                /\ schema.value = of(2)
           /\ path \in {"HashSet", "BTreeSet"} =>
                /\ schema.kind = "Set"
                /\ schema.ordered = (path = "BTreeSet")
                /\ schema.items = of(1)
           /\ path \in {"Vec", "LinkedList"} =>
                /\ schema.kind = "Array"
                /\ schema.items = of(1)
           /\ path = "Result" =>
                /\ schema.kind = "Result"
                /\ schema.ok = of(1)
                /\ schema.err = of(2)
           /\ path = "Tuple" =>
                /\ schema.kind = "Tuple"
                /\ Len(input.ty.args) \in 1..4
                /\ schema.fields = [i \in 1..Len(input.ty.args) |-> of(i)]
           /\ path = "Option" =>
                /\ schema = of(1)
                /\ schema.kind = of(1).kind
                /\ schema.description = of(1).description

\* The schema of a BTreeMap whose value type is itself a collection has
\* been built.
C17_Witness ==
    /\ input # NoInput
    /\ input.data = "Type"
    /\ input.ty.path = "BTreeMap"
    /\ input.ty.args[2].path \in {"Vec", "HashSet"}
    /\ schema # NotBuilt

\* C18: create_tool_schema(name, description, input_schema) returns an
\* object with exactly the keys name, description and input_schema; name
\* and description are the arguments, and input_schema is
\* to_anthropic_schema of the same tree.
C18_ToolEnvelope ==
    tool # NotRun =>
        /\ is_object(tool.returned)
        /\ DOMAIN tool.returned.m
             = {<<"n", "a", "m", "e">>,
                <<"d", "e", "s", "c", "r", "i", "p", "t", "i", "o", "n">>,
                <<"i", "n", "p", "u", "t", "_", "s", "c", "h", "e", "m", "a">>}
        /\ get(tool.returned, <<"n", "a", "m", "e">>) = JString(tool.name)
        /\ get(tool.returned, <<"d", "e", "s", "c", "r", "i", "p", "t", "i", "o", "n">>)
             = JString(tool.description)
        /\ get(tool.returned,
               <<"i", "n", "p", "u", "t", "_", "s", "c", "h", "e", "m", "a">>)
             = to_anthropic_schema(schema)
        /\ anthropic # NotRun =>
              get(tool.returned,
                  <<"i", "n", "p", "u", "t", "_", "s", "c", "h", "e", "m", "a">>)
                = anthropic

\* A tool has been made of a derived record with a required field, after
\* to_anthropic_schema has run on it.
C18_Witness ==
    /\ tool # NotRun
    /\ anthropic # NotRun
    /\ input # NoInput
    /\ input.data = "Struct"
    /\ schema.kind = "Object"
    /\ schema.required # <<>>

\* A tree of primitives, Object, Array, Enum and Tuple nodes only.
RECURSIVE IsPlain(_)
IsPlain(s) ==
    CASE s.kind \in {"String", "Integer", "Number", "Boolean", "Null", "Enum"} -> TRUE
      [] s.kind = "Object" ->
           \A i \in 1..Len(s.properties) : IsPlain(s.properties[i].value)
      [] s.kind = "Array" -> IsPlain(s.items)
      [] s.kind = "Tuple" -> \A i \in 1..Len(s.fields) : IsPlain(s.fields[i])
      [] OTHER -> FALSE

\* Some Object of the tree has an empty required list.
RECURSIVE HasOptionalOnlyObject(_)
HasOptionalOnlyObject(s) ==
    CASE s.kind = "Object" ->
           \/ s.required = <<>>
           \/ \E i \in 1..Len(s.properties) : HasOptionalOnlyObject(s.properties[i].value)
      [] s.kind = "Array" -> HasOptionalOnlyObject(s.items)
      [] s.kind = "Tuple" -> \E i \in 1..Len(s.fields) : HasOptionalOnlyObject(s.fields[i])
      [] OTHER -> FALSE

\* The JSON value without the required keys that hold an empty array.
RECURSIVE WithoutEmptyRequired(_)
WithoutEmptyRequired(j) ==
    CASE j.t = "Object" ->
           LET kept == {k \in DOMAIN j.m : ~(k = k_required /\ j.m[k] = JArray(<<>>))}
           IN JObject([k \in kept |-> WithoutEmptyRequired(j.m[k])])
      [] j.t = "Array" -> JArray([i \in 1..Len(j.a) |-> WithoutEmptyRequired(j.a[i])])
      [] OTHER -> j

C20_SetAndMapRules ==
    schema.kind \in {"Set", "Map"} =>
        /\ openapi # NotRun =>
              /\ is_object(openapi)
              /\ IF schema.kind = "Set"
                 THEN /\ KeysBesidesDescription(openapi) = {k_type, k_items, k_uniqueItems}
                      /\ get(openapi, k_type) = JString(v_array)
                      /\ get(openapi, k_items) = schema_type_to_openapi(schema.items)
                      /\ get(openapi, k_uniqueItems) = JBool(TRUE)
                 ELSE IF schema.key.kind = "String"
                 THEN /\ KeysBesidesDescription(openapi) = {k_type, k_additionalProperties}
                      /\ get(openapi, k_type) = JString(v_object)
                      /\ get(openapi, k_additionalProperties)
                           = schema_type_to_openapi(schema.value)
                 ELSE /\ KeysBesidesDescription(openapi) = {k_type, k_items}
                      /\ get(openapi, k_type) = JString(v_array)
                      /\ get(openapi, k_items)
                           = schema_type_to_openapi(
                                 TypeKind_Tuple(<<schema.key, schema.value>>, None))
        /\ wit # NotRun =>
              wit.text
                = <<"l", "i", "s", "t", "<">>
                  \o (IF schema.kind = "Set"
                      THEN schema_type_to_wit(schema.items, None)
                      ELSE TupleText(<<schema_type_to_wit(schema.key, None),
                                       schema_type_to_wit(schema.value, None)>>))
                  \o <<">">>

\* The field names of the cases of a Variant whose payload is an Object.
ObjectPayloadFields(cases) ==
    UNION {IF is_some(cases[i].data) /\ unwrap(cases[i].data).kind = "Object"
           THEN Keys(unwrap(cases[i].data).properties)
           ELSE {} : i \in 1..Len(cases)}

\* {type: "string", enum: names}
TagOf(names) ==
    JObject(insert(insert(MapNew, k_type, JString(v_string)), k_enum, JStrings(names)))

\* C21: for a Variant the Discriminator Projector returns a flat object whose
\* properties map type to {type: "string", enum: the case names in order}
\* and hold one property for each field name of a case with an Object
\* payload, and nothing else; required is exactly ["type"].
C21_FlatVariant ==
    (schema.kind = "Variant" /\ anthropic # NotRun) =>
        LET names == [i \in 1..Len(schema.cases) |-> schema.cases[i].name]
        IN /\ is_object(anthropic)
           /\ get(anthropic, k_type) = JString(v_object)
           /\ PropertyNames(anthropic) = {k_type} \cup ObjectPayloadFields(schema.cases)
           /\ get(get(anthropic, k_properties), k_type) = TagOf(names)
           /\ get(anthropic, k_required) = JStrings(<<k_type>>)

\* The Union output for a TaggedUnion: a oneOf with one branch per
\* tag_variants entry, in order, each an object with tag_field pinned to
\* {type: "string", enum: [v]}, the projections of the data fields named in
\* projected, and required exactly [tag_field]; discriminator.propertyName is
\* tag_field.
TaggedBranches(projected) ==
    /\ is_object(openapi)
    /\ KeysBesidesDescription(openapi) = {k_oneOf, k_discriminator}
    /\ get(openapi, k_discriminator)
         = JObject(insert(MapNew, k_propertyName, JString(schema.tag_field)))
    /\ Len(Branches(openapi)) = Len(schema.tag_variants)
    /\ \A i \in 1..Len(schema.tag_variants) :
          LET branch == Branches(openapi)[i]
          IN /\ DOMAIN branch.m = {k_type, k_properties, k_required}
             /\ get(branch, k_type) = JString(v_object)
             /\ PropertyNames(branch)
                  = Keys(schema.data_fields) \cup {schema.tag_field}
             /\ get(get(branch, k_properties), schema.tag_field)
                  = TagOf(<<schema.tag_variants[i]>>)
             /\ \A k \in projected :
                   get(get(branch, k_properties), k)
                     = schema_type_to_openapi(Get(schema.data_fields, k))
             /\ get(branch, k_required) = JStrings(<<schema.tag_field>>)

\* C22 (as stated): for a TaggedUnion the Union Projector returns a oneOf
\* with exactly one branch per tag_variants entry, in order; the branch for
\* the variant v is an object whose properties are the projections of all
\* data_fields plus tag_field pinned to {type: "string", enum: [v]}, and
\* whose required is exactly [tag_field]; the result carries
\* discriminator.propertyName equal to tag_field.
C22_AllDataFieldsProjected ==
    (schema.kind = "TaggedUnion" /\ openapi # NotRun) =>
        TaggedBranches(Keys(schema.data_fields))

\* C22 (amended): as C22, the properties of a branch being tag_field pinned
\* to {type: "string", enum: [v]} plus the projections of the data_fields
\* whose name is not tag_field; a data field named tag_field is not
\* projected.
C22_BranchPerTagVariant ==
    (schema.kind = "TaggedUnion" /\ openapi # NotRun) =>
        TaggedBranches(Keys(schema.data_fields) \ {schema.tag_field})

\* The Union Projector has run on a TaggedUnion of two different variants
\* and two data fields.
C22_Witness ==
    /\ openapi # NotRun
    /\ schema.kind = "TaggedUnion"
    /\ Len(schema.tag_variants) = 2
    /\ schema.tag_variants[1] # schema.tag_variants[2]
    /\ Len(schema.data_fields) = 2

\* C23: in the Union Projector the description of a Variant case is the
\* description of that case's oneOf branch, for every case that has one,
\* unit cases and data-carrying cases alike.
C23_CaseDescriptionOnBranch ==
    (schema.kind = "Variant" /\ openapi # NotRun) =>
        \A i \in 1..Len(schema.cases) :
           is_some(schema.cases[i].description) =>
              /\ i <= Len(Branches(openapi))
              /\ contains_key(Branches(openapi)[i], k_description)
              /\ get(Branches(openapi)[i], k_description)
                   = JString(unwrap(schema.cases[i].description))

\* C24: the Union Projector writes a node's description into the description
\* key of the built value, for every kind: the output's description equals
\* the node's description, also on the object of a Ref, which then holds
\* $ref: "#/components/schemas/<name>" and description; without a
\* description on the node no description key is added.
C24_DescriptionOnEveryKind ==
    openapi # NotRun =>
        /\ is_object(openapi)
        /\ IF is_some(schema.description)
           THEN /\ contains_key(openapi, k_description)
                /\ get(openapi, k_description) = JString(unwrap(schema.description))
           ELSE ~contains_key(openapi, k_description)
        /\ schema.kind = "Ref" =>
              /\ KeysBesidesDescription(openapi) = {k_ref}
              /\ get(openapi, k_ref)
                   = JString(<<"#", "/", "c", "o", "m", "p", "o", "n", "e", "n", "t", "s",
                               "/", "s", "c", "h", "e", "m", "a", "s", "/">>
                             \o schema.name)

\* C25: the Discriminator Projector turns a Map with String keys into
\* {type: "object", additionalProperties: <value>} and a Map with any other
\* key kind into {type: "array", items: T}, T being the fixed array
\* {type: "array", prefixItems: [<key>, <value>], minItems: 2, maxItems: 2};
\* the ordered flag does not change the output.
C25_MapRule ==
    (schema.kind = "Map" /\ anthropic # NotRun) =>
        /\ is_object(anthropic)
        /\ IF schema.key.kind = "String"
           THEN /\ KeysBesidesDescription(anthropic) = {k_type, k_additionalProperties}
                /\ get(anthropic, k_type) = JString(v_object)
                /\ get(anthropic, k_additionalProperties)
                     = to_anthropic_schema(schema.value)
           ELSE /\ KeysBesidesDescription(anthropic) = {k_type, k_items}
                /\ get(anthropic, k_type) = JString(v_array)
                /\ IsFixedArray(get(anthropic, k_items),
                                <<to_anthropic_schema(schema.key),
                                  to_anthropic_schema(schema.value)>>)
                /\ ~contains_key(get(anthropic, k_items), k_description)
        /\ anthropic = to_anthropic_schema([schema EXCEPT !.ordered = ~@])

\* The Discriminator Projector has run on an ordered Map whose keys are
\* integers and whose values are records.
C25_Witness ==
    /\ schema.kind = "Map"
    /\ schema.ordered
    /\ schema.key.kind = "Integer"
    /\ schema.value.kind = "Object"
    /\ anthropic # NotRun

\* The positions of the lines of a declaration that declare something: the
\* header and the members, in order.
DeclarationLines(ls) ==
    LET at == {i \in 1..Len(ls) :
                  ~IsComment(ls[i]) /\ ~starts_with(trim_start(ls[i]), <<"}">>)}
    IN [k \in 1..Cardinality(at) |->
           CHOOSE i \in at : Cardinality({j \in at : j <= i}) = k]

\* The documentation comments immediately above line i: the text of each
\* after the "/// " marker.
CommentsAbove(ls, i) ==
    LET runs == {j \in 1..i : \A k \in j..(i - 1) : IsComment(ls[k])}
        first == CHOOSE j \in runs : \A other \in runs : j <= other
    IN [k \in 1..(i - first) |->
           LET body == trim_start(ls[first + k - 1])
           IN SubSeq(body, Len(w_doc) + 1, Len(body))]

TrimmedLines(description) ==
    IF is_some(description)
    THEN LET ls == lines(unwrap(description)) IN [k \in 1..Len(ls) |-> trim(ls[k])]
    ELSE <<>>

\* The descriptions of a declaration in the order of its text: the one of
\* the type, then those of its members.
DescriptionsInOrder(s) ==
    <<s.description>>
    \o CASE s.kind = "Object" ->
              LET fields == sort_by_key(s.properties)
              IN [i \in 1..Len(fields) |-> fields[i].value.description]
         [] s.kind = "Variant" ->
              [i \in 1..Len(s.cases) |-> s.cases[i].description]
         [] s.kind = "Enum" -> [i \in 1..Len(s.variants) |-> None]

\* A record, variant or enum whose members have one-line types.
IsFlatDeclaration(s) ==
    LET OneLine(t) ==
            t.kind \in {"String", "Integer", "Number", "Boolean", "Null", "Ref"}
    IN CASE s.kind = "Object" ->
              \A i \in 1..Len(s.properties) : OneLine(s.properties[i].value)
         [] s.kind = "Variant" ->
              \A i \in 1..Len(s.cases) :
                  is_some(s.cases[i].data) => OneLine(unwrap(s.cases[i].data))
         [] s.kind = "Enum" -> TRUE
         [] OTHER -> FALSE

\* C26: in the interface text of a declaration, the description of the
\* type, of each record field and of each variant case stands as one "/// "
\* comment line per line of the description, each line trimmed, immediately
\* above the line it annotates, and there is no other comment line.
C26_TrimmedDocComments ==
    (IsFlatDeclaration(schema) /\ wit # NotRun) =>
        LET ls == lines(wit.text)
            declared == DeclarationLines(ls)
            described == DescriptionsInOrder(schema)
        IN /\ Len(declared) = Len(described)
           /\ \A k \in 1..Len(declared) :
                 CommentsAbove(ls, declared[k]) = TrimmedLines(described[k])
           /\ \A i \in 1..Len(ls) :
                 IsComment(ls[i]) =>
                    /\ i < Len(ls)
                    /\ \/ IsComment(ls[i + 1])
                       \/ \E k \in 1..Len(declared) : declared[k] = i + 1

\* C27: a data field that has the name of the discriminator does not replace
\* it.  When the data_fields of a TaggedUnion hold tag_field, the flat
\* object of the Discriminator Projector and every branch of the Union
\* Projector still map tag_field to {type: "string", enum: ...}; when the
\* Object payload of a Variant case holds a field named type, the flat
\* object of the Discriminator Projector still maps type to the enum of the
\* case names.
C27_DiscriminatorKept ==
    /\ (schema.kind = "TaggedUnion" /\ schema.tag_field \in Keys(schema.data_fields)) =>
          /\ anthropic # NotRun =>
                get(get(anthropic, k_properties), schema.tag_field)
                  = TagOf(schema.tag_variants)
          /\ openapi # NotRun =>
                \A i \in 1..Len(Branches(openapi)) :
                    get(get(Branches(openapi)[i], k_properties), schema.tag_field)
                      = TagOf(<<schema.tag_variants[i]>>)
    /\ (schema.kind = "Variant" /\ k_type \in ObjectPayloadFields(schema.cases)) =>
          (anthropic # NotRun =>
              get(get(anthropic, k_properties), k_type)
                = TagOf([i \in 1..Len(schema.cases) |-> schema.cases[i].name]))

\* The cases of a Variant whose payload is an Object with a field named k.
CasesWithField(cases, k) ==
    {i \in 1..Len(cases) :
        /\ is_some(cases[i].data)
        /\ unwrap(cases[i].data).kind = "Object"
        /\ k \in Keys(unwrap(cases[i].data).properties)}

\* C28: in the flat object the Discriminator Projector returns for a Variant,
\* the property of a payload field name is the projection of the field's
\* schema in the first case, in case order, whose Object payload has that
\* field, whatever the iteration order of the payload maps.
C28_FirstCaseWins ==
    (schema.kind = "Variant" /\ anthropic # NotRun) =>
        \A k \in ObjectPayloadFields(schema.cases) :
            LET having == CasesWithField(schema.cases, k)
                first == CHOOSE i \in having : \A j \in having : i <= j
            IN get(get(anthropic, k_properties), k)
                 = to_anthropic_schema(Get(unwrap(schema.cases[first].data).properties, k))

\* The Discriminator Projector has run on a Variant in which two cases have
\* the same payload field with different schemas.
C28_Witness ==
    /\ schema.kind = "Variant"
    /\ anthropic # NotRun
    /\ \E k \in ObjectPayloadFields(schema.cases) :
          \E i, j \in CasesWithField(schema.cases, k) :
              Get(unwrap(schema.cases[i].data).properties, k)
                # Get(unwrap(schema.cases[j].data).properties, k)

\* Every Object of the tree lists in required only keys of its properties.
RECURSIVE RequiredAreProperties(_)
RequiredAreProperties(s) ==
    CASE s.kind = "Object" ->
           /\ \A i \in 1..Len(s.required) : s.required[i] \in Keys(s.properties)
           /\ \A i \in 1..Len(s.properties) : RequiredAreProperties(s.properties[i].value)
      [] s.kind \in {"Array", "Set"} -> RequiredAreProperties(s.items)
      [] s.kind = "Map" -> RequiredAreProperties(s.key) /\ RequiredAreProperties(s.value)
      [] s.kind = "TaggedUnion" ->
           \A i \in 1..Len(s.data_fields) : RequiredAreProperties(s.data_fields[i].value)
      [] s.kind = "Variant" ->
           \A i \in 1..Len(s.cases) :
               is_some(s.cases[i].data) => RequiredAreProperties(unwrap(s.cases[i].data))
      [] s.kind = "Result" -> RequiredAreProperties(s.ok) /\ RequiredAreProperties(s.err)
      [] s.kind = "Tuple" -> \A i \in 1..Len(s.fields) : RequiredAreProperties(s.fields[i])
      [] OTHER -> TRUE

\* Every object of the JSON value that has both properties and required
\* names in required only keys of its properties.
RECURSIVE RequiredWithinProperties(_)
RequiredWithinProperties(j) ==
    CASE j.t = "Object" ->
           /\ ({k_properties, k_required} \subseteq DOMAIN j.m) =>
                 \A i \in 1..Len(j.m[k_required].a) :
                     j.m[k_required].a[i].s \in DOMAIN j.m[k_properties].m
           /\ \A k \in DOMAIN j.m : RequiredWithinProperties(j.m[k])
      [] j.t = "Array" -> \A i \in 1..Len(j.a) : RequiredWithinProperties(j.a[i])
      [] OTHER -> TRUE

\* C29: when every Object of the input lists in required only keys of its
\* properties, every object of the outputs of the Discriminator Projector
\* and of the Union Projector that has both properties and required does so
\* too, the generated flat objects and oneOf branches included.
C29_RequiredWithinProperties ==
    (Built /\ RequiredAreProperties(schema)) =>
        /\ anthropic # NotRun => RequiredWithinProperties(anthropic)
        /\ openapi # NotRun => RequiredWithinProperties(openapi)

\* Both JSON projectors have run on a TaggedUnion with a data field besides
\* the tag.
C29_Witness ==
    /\ schema.kind = "TaggedUnion"
    /\ schema.tag_variants # <<>>
    /\ Keys(schema.data_fields) \ {schema.tag_field} # {}
    /\ anthropic # NotRun
    /\ openapi # NotRun

\* C30: the interface text of a record, a variant or an enum whose declared
\* names differ from one another declares identifiers that differ from one
\* another: no identifier is declared twice.
C30_DistinctIdentifiers ==
    (schema.kind \in {"Object", "Variant", "Enum"} /\ wit # NotRun
       /\ \A i, j \in 1..Len(DeclaredNames) : i # j => DeclaredNames[i] # DeclaredNames[j]) =>
        LET names == MemberNames(wit.text)
        IN /\ Len(names) = Len(DeclaredNames)
           /\ \A i, j \in 1..Len(names) : i # j => names[i] # names[j]
====
